---------------------------- MODULE Spec2Model ----------------------------
(***************************************************************************)
(* A model of evmone's baseline interpreter: code analysis, the pre-flight *)
(* requirement check, the dispatch loop and result assembly                *)
(* (lib/evmone/baseline.cpp), for one invocation of the entry point, and   *)
(* of the block-based prototype interpreter (lib/evmone/execution.cpp,     *)
(* lines 1-187), run on the same code and gas once the baseline has        *)
(* returned.  SpecReq applies check_requirements to arbitrary inputs,      *)
(* SpecMem applies the memory checks of both interpreters to sequences of  *)
(* accesses, SpecMstore applies the prototype's op_mstore to operands of   *)
(* any size, SpecScan applies analyze to codes with long pushes,           *)
(* SpecRerun calls the entry point twice on the same code and message,     *)
(* with or without a tracer, and SpecVariants runs the dispatch variant of *)
(* the second half of lib/evmone/execution.cpp after the one of            *)
(* baseline.cpp.  The routines that consult the host are run against a     *)
(* host that answers from a fixed record.                                  *)
(*                                                                         *)
(* Offsets are 0-based as in the source; TLA+ sequences are 1-based, so    *)
(* the byte at offset k of a sequence s is s[k + 1].                       *)
(*                                                                         *)
(* Words are 256-bit in the source.  Every word on the stacks of the two   *)
(* interpreters is below 2^31, so no word operation of the model wraps;    *)
(* the memory-check harnesses hold larger words as pairs (hi, lo).         *)
(***************************************************************************)
EXTENDS Integers, Sequences, FiniteSets, TLC

(***************************************************************************)
(* Opcodes (evmc/instructions.h).                                          *)
(***************************************************************************)
OP_STOP == 0
OP_ADD == 1
OP_EXP == 10
OP_UNDEF0C == 12
OP_POP == 80
OP_SLOAD == 84
OP_SSTORE == 85
OP_MSTORE == 82
OP_JUMP == 86
OP_JUMPI == 87
OP_PC == 88
OP_MSIZE == 89
OP_GAS == 90
OP_JUMPDEST == 91
OP_PUSH1 == 96
OP_PUSH2 == 97
OP_PUSH32 == 127
OP_DUP1 == 128
OP_CALL == 241
OP_RETURN == 243
OP_REVERT == 253
OP_INVALID == 254
OP_SELFDESTRUCT == 255

(***************************************************************************)
(* Status codes (evmc_status_code).                                        *)
(***************************************************************************)
EVMC_SUCCESS == "success"
EVMC_REVERT == "revert"
EVMC_OUT_OF_GAS == "out_of_gas"
EVMC_INVALID_INSTRUCTION == "invalid_instruction"
EVMC_UNDEFINED_INSTRUCTION == "undefined_instruction"
EVMC_STACK_OVERFLOW == "stack_overflow"
EVMC_STACK_UNDERFLOW == "stack_underflow"
EVMC_BAD_JUMP_DESTINATION == "bad_jump_destination"
EVMC_STATIC_MODE_VIOLATION == "static_mode_violation"
\* The status a host reports for a sub-call that failed.
EVMC_FAILURE == "failure"

\* Stack::limit: the operand stack holds at most 1024 words.
StackLimit == 1024

\* instr::undefined: the gas-cost sentinel of an undefined opcode.
Undefined == -1

\* The message depth at which a sub-call is refused.
CallDepthLimit == 1024

\* The gas a value-carrying call adds for the callee, and the guard of SSTORE.
CallStipend == 2300

(***************************************************************************)
(* Bounds of the model.                                                    *)
(***************************************************************************)
\* Every byte string over CodeBytes of at most this length is executed.
MaxCodeLen == 3
\* Each of them is run with every initial gas in 0..MaxGas.
MaxGas == 11

\* The longest code the analysis is applied to on its own.
MaxScanLen == 3

\* The longest enumerated program that is run twice.
MaxRerunLen == 2

\* The largest initial gas the endless loop is run with.
MaxLoopGas == 40
\* Requirement checks are tried at heights 0..MaxReqHeight and
\* StackLimit - MaxReqHeight..StackLimit.
MaxReqHeight == 3
\* The memory checks are tried with every initial gas in 0..MaxMemGas.
MaxMemGas == 20

(***************************************************************************)
(* Inputs of the model.                                                    *)
(***************************************************************************)
\* The bytes the exhaustively enumerated programs are made of.
CodeBytes ==
    {OP_STOP, OP_ADD, OP_UNDEF0C, OP_JUMP, OP_MSIZE, OP_JUMPDEST, OP_PUSH1, OP_PUSH2}

\* The values an uninitialized byte of the padded code buffer may hold.
GarbageBytes == {OP_STOP, OP_JUMPDEST, OP_SELFDESTRUCT}

RECURSIVE SeqsUpTo(_, _)
SeqsUpTo(S, n) ==
    IF n = 0 THEN {<<>>}
    ELSE LET shorter == SeqsUpTo(S, n - 1)
         IN  shorter \cup {Append(s, b) : s \in shorter, b \in S}

(***************************************************************************)
(* Code analysis: baseline.cpp, analyze().                                 *)
(***************************************************************************)
\* static_cast<int8_t>(op)
Int8(op) == IF op >= 128 THEN op - 256 ELSE op

\* static_cast<int8_t>(op) >= OP_PUSH1: any of PUSH1..PUSH32.
IsPush(op) == Int8(op) >= OP_PUSH1

\* A data length one byte short (op - OP_PUSH1).
PushLenShort(op) == op - OP_PUSH1

\* op - size_t{OP_PUSH1 - 1}: the number of data bytes of a PUSH opcode.
PushLen(op) == op - (OP_PUSH1 - 1)

\* A scan that skips one byte too few of a PUSH's data (i += op - OP_PUSH1).
RECURSIVE ScanLoopShortSkip(_, _, _)
ScanLoopShortSkip(c, i, map) ==
    IF i < Len(c)
    THEN LET op == c[i + 1]
         IN  IF IsPush(op)
             THEN ScanLoopShortSkip(c, i + PushLen(op), map)
             ELSE IF op = OP_JUMPDEST
                  THEN ScanLoopShortSkip(c, i + 1, [map EXCEPT ![i + 1] = TRUE])
                  ELSE ScanLoopShortSkip(c, i + 1, map)
    ELSE [i |-> i, map |-> map]

\* The scan loop of analyze, from index i with the bitmap map: the final
\* index and bitmap.
RECURSIVE ScanLoop(_, _, _)
ScanLoop(c, i, map) ==
    IF i < Len(c)
    THEN LET op == c[i + 1]
         IN  IF IsPush(op)
             THEN ScanLoop(c, i + PushLen(op) + 1, map)
             ELSE IF op = OP_JUMPDEST
                  THEN ScanLoop(c, i + 1, [map EXCEPT ![i + 1] = TRUE])
                  ELSE ScanLoop(c, i + 1, map)
    ELSE [i |-> i, map |-> map]

\* JumpdestMap map(code_size), all zeros, then the scan.
AnalyzeScan(c) == ScanLoop(c, 0, [k \in 1..Len(c) |-> FALSE])

\* The offsets of the padded buffer (new uint8_t[i + 1]) that analyze never
\* writes: neither copied from the code nor set to STOP.
UninitOffsets(c, i) == {k \in 0..i : k > Len(c) /\ k # i}

\* A buffer that ends in JUMPDEST where the final STOP belongs.
PaddedCodeJumpdest(c, i, g) ==
    [k \in 1..(i + 1) |->
        IF k - 1 < Len(c) THEN c[k]
        ELSE IF k - 1 = i THEN OP_JUMPDEST
        ELSE IF k - 1 = Len(c) THEN OP_STOP
        ELSE g[k - 1]]

\* A buffer one byte longer, the final STOP one byte late: the byte at i is
\* whatever the allocation held.
PaddedCodeLateStop(c, i, g) ==
    [k \in 1..(i + 2) |->
        IF k - 1 < Len(c) THEN c[k]
        ELSE IF k - 1 = Len(c) \/ k - 1 = i + 1 THEN OP_STOP
        ELSE IF k - 1 = i THEN (IF i - 1 \in DOMAIN g THEN g[i - 1] ELSE OP_STOP)
        ELSE g[k - 1]]

\* A buffer without the byte for the final STOP (new uint8_t[i]).
PaddedCodeShort(c, i, g) ==
    [k \in 1..i |->
        IF k - 1 < Len(c) THEN c[k]
        ELSE IF k - 1 = Len(c) THEN OP_STOP
        ELSE g[k - 1]]

\* The padded code buffer: the code, STOP at code_size, STOP at i, and
\* whatever the allocation held (g) elsewhere.
PaddedCode(c, i, g) ==
    [k \in 1..(i + 1) |->
        IF k - 1 < Len(c) THEN c[k]
        ELSE IF k - 1 = Len(c) \/ k - 1 = i THEN OP_STOP
        ELSE g[k - 1]]

(***************************************************************************)
(* The instruction table (baseline_instruction_table.hpp): per opcode the  *)
(* base gas cost or Undefined, the stack height required, and whether the  *)
(* instruction can overflow the stack.                                     *)
(***************************************************************************)
Entry(cost, req, grows) ==
    [gas_cost |-> cost, stack_height_required |-> req, can_overflow_stack |-> grows]

InstructionTable(op) ==
    CASE op = OP_STOP -> Entry(0, 0, FALSE)
      [] op = OP_ADD -> Entry(3, 2, FALSE)
      [] op = OP_EXP -> Entry(10, 2, FALSE)
      [] op = OP_POP -> Entry(2, 1, FALSE)
      [] op = OP_MSTORE -> Entry(3, 2, FALSE)
      [] op = OP_SLOAD -> Entry(100, 1, FALSE)
      [] op = OP_SSTORE -> Entry(0, 2, FALSE)
      [] op = OP_JUMP -> Entry(8, 1, FALSE)
      [] op = OP_JUMPI -> Entry(10, 2, FALSE)
      [] op = OP_PC -> Entry(2, 0, TRUE)
      [] op = OP_MSIZE -> Entry(2, 0, TRUE)
      [] op = OP_GAS -> Entry(2, 0, TRUE)
      [] op = OP_JUMPDEST -> Entry(1, 0, FALSE)
      [] op \in OP_PUSH1..OP_PUSH32 -> Entry(3, 0, TRUE)
      [] op = OP_DUP1 -> Entry(3, 1, TRUE)
      [] op = OP_CALL -> Entry(100, 7, FALSE)
      [] op = OP_RETURN -> Entry(0, 2, FALSE)
      [] op = OP_REVERT -> Entry(0, 2, FALSE)
      [] op = OP_INVALID -> Entry(0, 0, FALSE)
      [] op = OP_SELFDESTRUCT -> Entry(5000, 1, FALSE)
      [] OTHER -> Entry(Undefined, 0, FALSE)

(***************************************************************************)
(* Faulty variants of check_requirements.                                  *)
(***************************************************************************)
\* The stack checks made before the gas check.
check_requirements_stack_first(metrics, gas, stack_size) ==
    IF metrics.gas_cost = Undefined
    THEN [status |-> EVMC_UNDEFINED_INSTRUCTION, gas_left |-> gas]
    ELSE LET g == gas - metrics.gas_cost
         IN  IF stack_size = StackLimit /\ metrics.can_overflow_stack
             THEN [status |-> EVMC_STACK_OVERFLOW, gas_left |-> g]
             ELSE IF stack_size < metrics.stack_height_required
                  THEN [status |-> EVMC_STACK_UNDERFLOW, gas_left |-> g]
                  ELSE IF g < 0
                       THEN [status |-> EVMC_OUT_OF_GAS, gas_left |-> g]
                       ELSE [status |-> EVMC_SUCCESS, gas_left |-> g]

\* The gas test written <= 0 instead of < 0.
check_requirements_gas_le(metrics, gas, stack_size) ==
    IF metrics.gas_cost = Undefined
    THEN [status |-> EVMC_UNDEFINED_INSTRUCTION, gas_left |-> gas]
    ELSE LET g == gas - metrics.gas_cost
         IN  IF g <= 0
             THEN [status |-> EVMC_OUT_OF_GAS, gas_left |-> g]
             ELSE IF stack_size = StackLimit
                  THEN IF metrics.can_overflow_stack
                       THEN [status |-> EVMC_STACK_OVERFLOW, gas_left |-> g]
                       ELSE [status |-> EVMC_SUCCESS, gas_left |-> g]
                  ELSE IF stack_size < metrics.stack_height_required
                       THEN [status |-> EVMC_STACK_UNDERFLOW, gas_left |-> g]
                       ELSE [status |-> EVMC_SUCCESS, gas_left |-> g]

\* The base cost tested but never subtracted from gas_left.
check_requirements_no_charge(metrics, gas, stack_size) ==
    IF metrics.gas_cost = Undefined
    THEN [status |-> EVMC_UNDEFINED_INSTRUCTION, gas_left |-> gas]
    ELSE IF gas - metrics.gas_cost < 0
         THEN [status |-> EVMC_OUT_OF_GAS, gas_left |-> gas]
         ELSE IF stack_size = StackLimit
              THEN IF metrics.can_overflow_stack
                   THEN [status |-> EVMC_STACK_OVERFLOW, gas_left |-> gas]
                   ELSE [status |-> EVMC_SUCCESS, gas_left |-> gas]
              ELSE IF stack_size < metrics.stack_height_required
                   THEN [status |-> EVMC_STACK_UNDERFLOW, gas_left |-> gas]
                   ELSE [status |-> EVMC_SUCCESS, gas_left |-> gas]

\* The base cost added to gas_left instead of subtracted.
check_requirements_adds(metrics, gas, stack_size) ==
    IF metrics.gas_cost = Undefined
    THEN [status |-> EVMC_UNDEFINED_INSTRUCTION, gas_left |-> gas]
    ELSE LET g == gas + metrics.gas_cost
         IN  IF g < 0
             THEN [status |-> EVMC_OUT_OF_GAS, gas_left |-> g]
             ELSE IF stack_size = StackLimit
                  THEN IF metrics.can_overflow_stack
                       THEN [status |-> EVMC_STACK_OVERFLOW, gas_left |-> g]
                       ELSE [status |-> EVMC_SUCCESS, gas_left |-> g]
                  ELSE IF stack_size < metrics.stack_height_required
                       THEN [status |-> EVMC_STACK_UNDERFLOW, gas_left |-> g]
                       ELSE [status |-> EVMC_SUCCESS, gas_left |-> g]

\* The overflow check left out.
check_requirements_no_overflow(metrics, gas, stack_size) ==
    IF metrics.gas_cost = Undefined
    THEN [status |-> EVMC_UNDEFINED_INSTRUCTION, gas_left |-> gas]
    ELSE LET g == gas - metrics.gas_cost
         IN  IF g < 0
             THEN [status |-> EVMC_OUT_OF_GAS, gas_left |-> g]
             ELSE IF stack_size < metrics.stack_height_required
                  THEN [status |-> EVMC_STACK_UNDERFLOW, gas_left |-> g]
                  ELSE [status |-> EVMC_SUCCESS, gas_left |-> g]

(***************************************************************************)
(* baseline.cpp, check_requirements(): the status, and gas_left as the     *)
(* check leaves it (the base cost is subtracted before the test).          *)
(***************************************************************************)
check_requirements(metrics, gas, stack_size) ==
    IF metrics.gas_cost = Undefined
    THEN [status |-> EVMC_UNDEFINED_INSTRUCTION, gas_left |-> gas]
    ELSE LET g == gas - metrics.gas_cost
         IN  IF g < 0
             THEN [status |-> EVMC_OUT_OF_GAS, gas_left |-> g]
             ELSE IF stack_size = StackLimit
                  THEN IF metrics.can_overflow_stack
                       THEN [status |-> EVMC_STACK_OVERFLOW, gas_left |-> g]
                       ELSE [status |-> EVMC_SUCCESS, gas_left |-> g]
                  ELSE IF stack_size < metrics.stack_height_required
                       THEN [status |-> EVMC_STACK_UNDERFLOW, gas_left |-> g]
                       ELSE [status |-> EVMC_SUCCESS, gas_left |-> g]

(***************************************************************************)
(* Memory (instructions.hpp, check_memory): growth in whole 32-byte words, *)
(* paid by the difference of cost(w) = 3w + w^2/512.                       *)
(***************************************************************************)
num_words(size) == (size + 31) \div 32

memory_cost(w) == 3 * w + (w * w) \div 512

\* An access of size bytes at offset, with gas left and msize bytes of
\* memory: whether it succeeds, the gas left and the memory size after it.
check_memory(gas, msize, offset, size) ==
    IF size = 0 \/ offset + size <= msize
    THEN [ok |-> TRUE, gas_left |-> gas, msize |-> msize]
    ELSE LET new_words == num_words(offset + size)
             cost == memory_cost(new_words) - memory_cost(msize \div 32)
             g == gas - cost
         IN  IF g < 0
             THEN [ok |-> FALSE, gas_left |-> g, msize |-> msize]
             ELSE [ok |-> TRUE, gas_left |-> g, msize |-> new_words * 32]

\* memory.resize(n): new bytes are zero.
Resize(mem, n) == [k \in 1..n |-> IF k <= Len(mem) THEN mem[k] ELSE 0]

\* Byte k (0 = most significant) of the 32-byte big-endian form of a word
\* below 2^32.
WordByte(x, k) == IF k < 28 THEN 0 ELSE (x \div (256 ^ (31 - k))) % 256

\* intx::be::store(&memory[offset], x)
StoreWord(mem, offset, x) ==
    [k \in 1..Len(mem) |->
        IF k - 1 >= offset /\ k - 1 < offset + 32 THEN WordByte(x, k - 1 - offset)
        ELSE mem[k]]

(***************************************************************************)
(* The operand stack: a sequence whose last element is the top.            *)
(***************************************************************************)
\* state.stack[k]: the k-th item from the top; a read below the bottom of
\* the stack is outside the stack's storage (reported by StackMisuse).
Item(s, k) == IF k < Len(s) THEN s[Len(s) - k] ELSE 0

PopN(s, n) == SubSeq(s, 1, Len(s) - n)

\* A routine that pops `pops` items and then pushes `pushes` leaves the
\* stack's storage when the items are not there or the limit is passed.
StackMisuse(s, pops, pushes) ==
    Len(s) < pops \/ Len(s) - pops + pushes > StackLimit

(***************************************************************************)
(* The state of one invocation.                                            *)
(***************************************************************************)
VARIABLES
    code,           \* the bytecode handed to the entry point
    msg_gas,        \* msg.gas
    msg_static,     \* msg.flags & EVMC_STATIC
    msg_depth,      \* msg.depth
    host,           \* the host's answers: cold, stored, balance, call_status
    phase,          \* "entry", "loop", "exit" (after goto exit), "done"
    padded_code,    \* analysis.padded_code
    jumpdest_map,   \* analysis.jumpdest_map
    pc,             \* code_it - code
    gas_left,       \* state.gas_left
    stack,          \* state.stack
    memory,         \* state.memory
    status,         \* state.status
    output_offset,  \* state.output_offset
    output_size,    \* state.output_size
    host_calls,     \* the calls made to the host, in order
    result,         \* the evmc_result returned, or NoResult
    last,           \* history: the instruction dispatched last
    stack_misuse,   \* history: a routine left the stack's storage
    req_in,         \* requirement-check harness: the inputs
    req_out,        \* requirement-check harness: the outcome
    mem_charged,    \* history: the gas charged for memory expansion
    p_phase,        \* prototype: "idle", "loop", "exit", "done", "undefined"
    p_analysis,     \* prototype: analysis (instrs, blocks, extra)
    p_state,        \* prototype: execution_state
    p_result,       \* prototype: the evmc_result returned, or NoResult
    p_last,         \* prototype history: the instruction run last
    p_mem_charged,  \* prototype history: the gas charged for memory expansion
    mem_in,         \* memory-check harness: the access tried last
    mem_proto,      \* memory-check harness: the prototype's memory state
    mem_base,       \* memory-check harness: the baseline's memory state
    tracing,        \* vm.get_tracer() != nullptr
    trace,          \* the notifications the tracer has received, in order
    history,        \* history: the states the loop has gone through
    previous,       \* history: the invocation before this one, or NoRun
    variant         \* the dispatch variant in use: "terminate" or "next"

vars ==
    <<code, msg_gas, msg_static, msg_depth, host, phase, padded_code, jumpdest_map, pc, gas_left,
      stack, memory, status, output_offset, output_size, host_calls, result,
      last, stack_misuse, req_in, req_out, mem_charged, p_phase, p_analysis,
      p_state, p_result, p_last, p_mem_charged, mem_in, mem_proto, mem_base,
      tracing, trace, history, previous, variant>>

input_vars == <<code, msg_gas, msg_static, msg_depth, host>>
analysis_vars == <<padded_code, jumpdest_map>>
output_vars == <<output_offset, output_size>>
harness_vars == <<req_in, req_out>>
proto_vars == <<p_phase, p_analysis, p_state, p_result, p_last, p_mem_charged>>
mem_vars == <<mem_in, mem_proto, mem_base>>
\* What a step of the baseline interpreter leaves alone.
idle_vars == <<harness_vars, proto_vars, mem_vars, tracing, previous, variant>>
\* What the tracer and the observer of a run have recorded.
observed_vars == <<trace, history>>

NoResult == [status_code |-> "none", gas_left |-> 0, output |-> <<>>]
NoLast == [pc |-> -1, op |-> -1, gas |-> 0, height |-> 0, top |-> 0, second |-> 0,
           invoked |-> FALSE]
NoReq == [gas_cost |-> 0, stack_height_required |-> 0, can_overflow_stack |-> FALSE,
          gas |-> 0, height |-> 0]
NoOutcome == [status |-> "none", gas_left |-> 0]
NoRun == [ran |-> FALSE, tracing |-> FALSE, padded_code |-> <<>>,
          result |-> NoResult, trace |-> <<>>, history |-> <<>>]
NoAnalysis == [instrs |-> <<>>, blocks |-> <<>>, extra |-> <<>>]
NoProtoState ==
    [pc |-> 0, gas_left |-> 0, stack |-> <<>>, memory |-> <<>>,
     memory_prev_cost |-> 0, run |-> TRUE, status |-> EVMC_SUCCESS,
     output_offset |-> 0, output_size |-> 0]
NoProtoLast == [pc |-> -1, op |-> -1, gas |-> 0, block_cost |-> -1, msize |-> 0,
                height |-> 0, top |-> 0, second |-> 0, ran |-> FALSE]

\* The prototype has not been started.
ProtoIdle ==
    /\ p_phase = "idle"
    /\ p_analysis = NoAnalysis
    /\ p_state = NoProtoState
    /\ p_result = NoResult
    /\ p_last = NoProtoLast
    /\ p_mem_charged = 0

NoAccess == [offset |-> [hi |-> 0, lo |-> 0], size |-> [hi |-> 0, lo |-> 0],
             tried |-> FALSE]
NoMemState == [gas_left |-> 0, memory |-> <<>>, memory_prev_cost |-> 0,
               run |-> TRUE, status |-> EVMC_SUCCESS, charged |-> 0,
               stack |-> <<>>]

\* The memory-check harness is not in use.
MemIdle ==
    /\ mem_in = NoAccess
    /\ mem_proto = NoMemState
    /\ mem_base = NoMemState

(***************************************************************************)
(* The invocations the model runs: <<code, gas, static>>.                  *)
(***************************************************************************)
\* JUMPDEST, MSIZE, MSIZE, JUMP: the program that fills the stack.
OverflowCode == <<91, 89, 89, 86>>

\* Programs that need more gas or more bytes than the enumerated ones.
Scenarios ==
    { \* PUSH1 1, PUSH1 2, ADD, PUSH1 0, MSTORE, PUSH1 32, PUSH1 0, RETURN
      <<(<<96, 1, 96, 2, 1, 96, 0, 82, 96, 32, 96, 0, 243>>), 100000, FALSE>>,
      \* PUSH1 0, JUMP
      <<(<<96, 0, 86>>), 100, FALSE>>,
      \* JUMPDEST, PUSH1 0, JUMP
      <<(<<91, 96, 0, 86>>), 100, FALSE>>,
      \* JUMPDEST, MSIZE, MSIZE, JUMP: one more stack item each round
      <<OverflowCode, 14000, FALSE>>,
      \* PUSH1 0x5b, PUSH1 1, JUMP: a jump into push data
      <<(<<96, 91, 96, 1, 86>>), 100, FALSE>>,
      \* PUSH1 4, JUMP, INVALID, JUMPDEST, STOP: a jump forward
      <<(<<96, 4, 86, 254, 91, 0>>), 100, FALSE>>,
      \* PUSH1 4, JUMP, STOP: a jump to code_size
      <<(<<96, 4, 86, 0>>), 100, FALSE>>,
      \* JUMPDEST, PC, MSIZE, JUMPI: a taken JUMPI
      <<(<<91, 88, 89, 87>>), 60, FALSE>>,
      \* PUSH1 0, PUSH1 7, JUMPI, STOP: JUMPI with a zero condition
      <<(<<96, 0, 96, 7, 87, 0>>), 30, FALSE>>,
      \* PUSH1 1, PUSH1 7, JUMPI, STOP: a taken JUMPI to a bad destination
      <<(<<96, 1, 96, 7, 87, 0>>), 30, FALSE>>,
      \* PUSH1 0, PUSH1 1, JUMPI, STOP: a zero condition, the target in push data
      <<(<<96, 0, 96, 1, 87, 0>>), 30, FALSE>>,
      \* PUSH1 1, PUSH1 5, JUMPI, STOP: a taken JUMPI to the STOP
      <<(<<96, 1, 96, 5, 87, 0>>), 30, FALSE>>,
      \* PUSH1 0x5b, PUSH1 1, JUMPI, STOP: a taken JUMPI to a 0x5b in push data
      <<(<<96, 91, 96, 1, 87, 0>>), 30, FALSE>>,
      \* GAS, PC, DUP1, POP, POP, POP, STOP
      <<(<<90, 88, 128, 80, 80, 80, 0>>), 30, FALSE>>,
      \* PUSH1 2, PUSH1 3, EXP, STOP
      <<(<<96, 2, 96, 3, 10, 0>>), 100, FALSE>>,
      <<(<<96, 2, 96, 3, 10, 0>>), 20, FALSE>>,
      \* PUSH1 32, PUSH1 0, REVERT
      <<(<<96, 32, 96, 0, 253>>), 20, FALSE>>,
      \* PUSH1 0, PUSH1 0, REVERT
      <<(<<96, 0, 96, 0, 253>>), 20, FALSE>>,
      \* PUSH1 1, PUSH1 0, RETURN / REVERT: the expansion is not affordable
      <<(<<96, 1, 96, 0, 243>>), 7, FALSE>>,
      <<(<<96, 1, 96, 0, 253>>), 7, FALSE>>,
      \* PUSH1 0, PUSH1 40, MSTORE, PUSH1 1, PUSH1 70, MSTORE, MSIZE, STOP
      <<(<<96, 0, 96, 40, 82, 96, 1, 96, 70, 82, 89, 0>>), 40, FALSE>>,
      <<(<<96, 0, 96, 40, 82, 96, 1, 96, 70, 82, 89, 0>>), 29, FALSE>>,
      \* INVALID
      <<(<<254>>), 50, FALSE>>,
      \* PUSH1 0, SELFDESTRUCT
      <<(<<96, 0, 255>>), 6000, FALSE>>,
      <<(<<96, 0, 255>>), 6000, TRUE>>,
      <<(<<96, 0, 255>>), 100, FALSE>>,
      \* PUSH32 0x...0102, STOP
      <<(<<127, 0, 0, 0, 0, 0, 0, 0, 0, 0, 0, 0, 0, 0, 0, 0, 0, 0, 0, 0, 0, 0, 0, 0,
           0, 0, 0, 0, 0, 0, 0, 1, 2, 0>>), 10, FALSE>>,
      \* PUSH2 with one data byte, PUSH3 with none
      <<(<<97, 1>>), 10, FALSE>>,
      <<(<<98>>), 10, FALSE>>,
      \* PUSH1 0, PUSH1 1, MSTORE: a store that ends at byte 33
      <<(<<96, 0, 96, 1, 82>>), 100, FALSE>>,
      \* PUSH1 0, PUSH1 0, MSTORE, PUSH1 0, PUSH1 64, MSTORE: a second, higher store
      <<(<<96, 0, 96, 0, 82, 96, 0, 96, 64, 82>>), 100, FALSE>>,
      \* PUSH1 0, PUSH1 40, MSTORE, STOP: the expansion is not affordable
      <<(<<96, 0, 96, 40, 82, 0>>), 13, FALSE>>,
      \* PUSH1 0, STOP with exactly the gas of the block
      <<(<<96, 0, 0>>), 3, FALSE>>,
      \* PUSH1 1, PUSH1 0, RETURN: one byte of output from empty memory
      <<(<<96, 1, 96, 0, 243>>), 100, FALSE>>,
      \* PUSH1 0, POP, STOP
      <<(<<96, 0, 80, 0>>), 100, FALSE>>,
      \* GAS, POP, STOP
      <<(<<90, 80, 0>>), 100, FALSE>>,
      \* PUSH1 5, PUSH1 7, SSTORE, PUSH1 7, SLOAD, PUSH1 0, SELFDESTRUCT
      <<(<<96, 5, 96, 7, 85, 96, 7, 84, 96, 0, 255>>), 30000, FALSE>>,
      <<(<<96, 5, 96, 7, 85, 96, 7, 84, 96, 0, 255>>), 30000, TRUE>>,
      <<(<<96, 5, 96, 7, 85, 96, 7, 84, 96, 0, 255>>), 3000, FALSE>>,
      \* PUSH1 7, SLOAD, STOP
      <<(<<96, 7, 84, 0>>), 3000, FALSE>>,
      <<(<<96, 7, 84, 0>>), 150, FALSE>>,
      \* PUSH1 0 (four times), PUSH1 1, PUSH1 9, PUSH1 50, CALL, PUSH1 7,
      \* SLOAD, STOP: a call of account 9 with value 1 and 50 gas
      <<(<<96, 0, 96, 0, 96, 0, 96, 0, 96, 1, 96, 9, 96, 50, 241, 96, 7, 84, 0>>),
        50000, FALSE>>,
      <<(<<96, 0, 96, 0, 96, 0, 96, 0, 96, 1, 96, 9, 96, 50, 241, 96, 7, 84, 0>>),
        50000, TRUE>>,
      <<(<<96, 0, 96, 0, 96, 0, 96, 0, 96, 1, 96, 9, 96, 50, 241, 96, 7, 84, 0>>),
        5000, FALSE>>,
      \* the same call without value
      <<(<<96, 0, 96, 0, 96, 0, 96, 0, 96, 0, 96, 9, 96, 50, 241, 96, 7, 84, 0>>),
        50000, FALSE>> }

\* JUMPDEST, PUSH1 0, JUMP: a loop with no exit, run with every positive gas
\* up to MaxLoopGas.
LoopCode == <<91, 96, 0, 86>>

Inputs ==
    {<<c, g, FALSE>> : c \in SeqsUpTo(CodeBytes, MaxCodeLen), g \in 0..MaxGas}
        \cup Scenarios
        \cup {<<LoopCode, g, FALSE>> : g \in 1..MaxLoopGas}

\* The invocations that are made twice: the short programs, and the
\* scenarios but for the thousands of steps of OverflowCode.
RerunInputs ==
    {in \in Inputs : \/ Len(in[1]) <= MaxRerunLen
                     \/ (in \in Scenarios /\ in[1] # OverflowCode)}

\* The host of an invocation: whether the account or slot it is asked for
\* is cold, the value its storage holds, the balance of the running
\* account, and the status of a sub-call it executes.
NoHost == [cold |-> FALSE, stored |-> 0, balance |-> 0, call_status |-> EVMC_SUCCESS]

HostOps == {OP_SLOAD, OP_SSTORE, OP_CALL}

\* The hosts a program is run against: every kind when it has an opcode
\* that consults the host.
Hosts(c) ==
    IF \E k \in 1..Len(c) : c[k] \in HostOps
    THEN [cold : BOOLEAN, stored : {0, 5}, balance : {0, 5},
          call_status : {EVMC_SUCCESS, EVMC_FAILURE}]
    ELSE {NoHost}

\* The depths a program is run at: at the limit too when it calls.
Depths(c) ==
    IF \E k \in 1..Len(c) : c[k] = OP_CALL THEN {0, CallDepthLimit} ELSE {0}

\* The heights the requirement check is tried at.
ReqHeights == (0..MaxReqHeight) \cup ((StackLimit - MaxReqHeight)..StackLimit)

\* The table entries and configurations the requirement check is tried on.
ReqInputs ==
    [gas_cost : {Undefined, 0, 1, 2, 3, 8},
     stack_height_required : 0..MaxReqHeight \cup {17},
     can_overflow_stack : BOOLEAN,
     gas : 0..MaxGas,
     height : ReqHeights]

(***************************************************************************)
(* The initial states: an invocation not yet started (Spec), or a          *)
(* requirement check not yet made (SpecReq).                               *)
(***************************************************************************)
StateInit ==
    /\ phase = "entry"
    /\ padded_code = <<>>
    /\ jumpdest_map = <<>>
    /\ pc = 0
    /\ gas_left = 0
    /\ stack = <<>>
    /\ memory = <<>>
    /\ status = EVMC_SUCCESS
    /\ output_offset = 0
    /\ output_size = 0
    /\ host_calls = <<>>
    /\ result = NoResult
    /\ last = NoLast
    /\ stack_misuse = FALSE
    /\ mem_charged = 0
    /\ trace = <<>>
    /\ history = <<>>
    /\ variant = "terminate"

Init ==
    /\ \E in \in Inputs :
          /\ code = in[1]
          /\ msg_gas = in[2]
          /\ msg_static = in[3]
          /\ msg_depth \in Depths(in[1])
          /\ host \in Hosts(in[1])
    /\ StateInit
    /\ tracing = FALSE
    /\ previous = NoRun
    /\ req_in = NoReq
    /\ req_out = NoOutcome
    /\ ProtoIdle
    /\ MemIdle

(***************************************************************************)
(* Instruction routines (instructions.hpp).                                *)
(***************************************************************************)
\* The big-endian value of a byte sequence.
RECURSIVE BigEndianPrefix(_, _)
BigEndianPrefix(bytes, n) ==
    IF n = 0 THEN 0 ELSE BigEndianPrefix(bytes, n - 1) * 256 + bytes[n]

BigEndian(bytes) == BigEndianPrefix(bytes, Len(bytes))

\* push<n>: the n bytes after the opcode, read from the padded code.
push_value(pcode, at, n) == BigEndian(SubSeq(pcode, at + 2, at + 1 + n))

\* jump_impl: the destination must be inside the bitmap and marked.
jump_impl(map, dst) ==
    IF dst >= Len(map) \/ ~map[dst + 1]
    THEN [status |-> EVMC_BAD_JUMP_DESTINATION, pc |-> 0]
    ELSE [status |-> EVMC_SUCCESS, pc |-> dst]

\* A jumpi that validates its target before it looks at the condition.
jumpi_target_first(map, dst, cond, at) ==
    IF dst >= Len(map) \/ ~map[dst + 1]
    THEN [status |-> EVMC_BAD_JUMP_DESTINATION, pc |-> 0]
    ELSE IF cond # 0 THEN [status |-> EVMC_SUCCESS, pc |-> dst]
    ELSE [status |-> EVMC_SUCCESS, pc |-> at + 1]

\* jumpi: the jump is taken only when the condition word is not zero.
jumpi_impl(map, dst, cond, at) ==
    IF cond # 0 THEN jump_impl(map, dst) ELSE [status |-> EVMC_SUCCESS, pc |-> at + 1]

\* count_significant_bytes of a word below 2^32.
significant_bytes(x) ==
    IF x = 0 THEN 0 ELSE IF x < 256 THEN 1 ELSE IF x < 65536 THEN 2
    ELSE IF x < 16777216 THEN 3 ELSE 4

\* EXP's cost per significant byte of the exponent.
ExpByteCost == 50

(***************************************************************************)
(* The routines that consult the host (instructions.hpp): the status they  *)
(* return, the gas left, what they push, and the calls they make to the    *)
(* host, in order.                                                         *)
(***************************************************************************)
HostCall(name, arg) == [call |-> name, arg |-> arg]

\* sload: the access (2000 more for a cold slot), then the read.
sload(gas, key, h) ==
    LET g == gas - (IF h.cold THEN 2000 ELSE 0)
    IN  IF g < 0
        THEN [status |-> EVMC_OUT_OF_GAS, gas_left |-> g, pushed |-> <<key>>,
              calls |-> <<HostCall("access_storage", key)>>]
        ELSE [status |-> EVMC_SUCCESS, gas_left |-> g, pushed |-> <<h.stored>>,
              calls |-> <<HostCall("access_storage", key),
                          HostCall("get_storage", key)>>]

\* sstore: refused in a static call and with no more gas than the stipend;
\* else the access and the write, charged by what the write changed.
sstore(gas, static, key, value, h) ==
    IF static
    THEN [status |-> EVMC_STATIC_MODE_VIOLATION, gas_left |-> gas, calls |-> <<>>]
    ELSE IF gas <= CallStipend
    THEN [status |-> EVMC_OUT_OF_GAS, gas_left |-> gas, calls |-> <<>>]
    ELSE LET cost == (IF h.cold THEN 2100 ELSE 0)
                         + (IF value = h.stored THEN 100
                            ELSE IF h.stored = 0 THEN 20000 ELSE 2900)
             g == gas - cost
         IN  [status |-> IF g < 0 THEN EVMC_OUT_OF_GAS ELSE EVMC_SUCCESS,
              gas_left |-> g,
              calls |-> <<HostCall("access_storage", key),
                          HostCall("set_storage", key)>>]

Min(a, b) == IF a <= b THEN a ELSE b

\* A call that fails with out_of_gas after the calls made so far.
CallOutOfGas(g, msize, calls, mem_cost) ==
    [status |-> EVMC_OUT_OF_GAS, gas_left |-> g, msize |-> msize, pushed |-> <<0>>,
     calls |-> calls, mem_cost |-> mem_cost]

\* A call that makes the host execute the sub-call although the depth is
\* at the limit, the context static or the balance too low.
call_unguarded(gas, msize, static, depth, args, h) ==
    LET dst == args[2]
        has_value == args[3] # 0
        g1 == gas - (IF h.cold THEN 2500 ELSE 0)
        m1 == check_memory(g1, msize, args[4], args[5])
        m2 == check_memory(m1.gas_left, m1.msize, args[6], args[7])
        g2 == m2.gas_left - (IF has_value THEN 9000 ELSE 0)
        budget == Min(args[1], g2 - g2 \div 64)
        access == <<HostCall("access_account", dst)>>
    IN  IF g1 < 0 THEN CallOutOfGas(g1, msize, access, 0)
        ELSE IF ~m1.ok THEN CallOutOfGas(m1.gas_left, msize, access, g1 - m1.gas_left)
        ELSE IF ~m2.ok THEN CallOutOfGas(m2.gas_left, msize, access, g1 - m2.gas_left)
        ELSE IF g2 < 0 THEN CallOutOfGas(g2, msize, access, g1 - m2.gas_left)
        ELSE [status |-> EVMC_SUCCESS,
              gas_left |-> IF h.call_status = EVMC_SUCCESS THEN g2 ELSE g2 - budget,
              msize |-> m2.msize,
              pushed |-> <<IF h.call_status = EVMC_SUCCESS THEN 1 ELSE 0>>,
              calls |-> access \o <<HostCall("call", dst)>>,
              mem_cost |-> g1 - m2.gas_left]

\* call<EVMC_CALL>: the access (2500 more for a cold account), the
\* expansion for the input and the output region, 9000 for a value, the
\* callee's budget by the 63/64 rule; then 0 without a sub-call at the depth
\* limit, for a value in a static call or above the balance; else the
\* sub-call, 1 or 0 by its status, and the gas it did not use.
call(gas, msize, static, depth, args, h) ==
    LET dst == args[2]
        has_value == args[3] # 0
        g1 == gas - (IF h.cold THEN 2500 ELSE 0)
        m1 == check_memory(g1, msize, args[4], args[5])
        m2 == check_memory(m1.gas_left, m1.msize, args[6], args[7])
        g2 == m2.gas_left - (IF has_value THEN 9000 ELSE 0)
        budget == Min(args[1], g2 - g2 \div 64)
        access == <<HostCall("access_account", dst)>>
    IN  IF g1 < 0 THEN CallOutOfGas(g1, msize, access, 0)
        ELSE IF ~m1.ok THEN CallOutOfGas(m1.gas_left, msize, access, g1 - m1.gas_left)
        ELSE IF ~m2.ok THEN CallOutOfGas(m2.gas_left, msize, access, g1 - m2.gas_left)
        ELSE IF g2 < 0 THEN CallOutOfGas(g2, msize, access, g1 - m2.gas_left)
        ELSE IF depth >= CallDepthLimit \/ (has_value /\ static)
        THEN [status |-> EVMC_SUCCESS, gas_left |-> g2, msize |-> m2.msize,
              pushed |-> <<0>>, calls |-> access, mem_cost |-> g1 - m2.gas_left]
        ELSE IF has_value /\ h.balance < args[3]
        THEN [status |-> EVMC_SUCCESS, gas_left |-> g2, msize |-> m2.msize,
              pushed |-> <<0>>,
              calls |-> access \o <<HostCall("get_balance", 0)>>,
              mem_cost |-> g1 - m2.gas_left]
        ELSE [status |-> EVMC_SUCCESS,
              gas_left |-> IF h.call_status = EVMC_SUCCESS THEN g2 ELSE g2 - budget,
              msize |-> m2.msize,
              pushed |-> <<IF h.call_status = EVMC_SUCCESS THEN 1 ELSE 0>>,
              calls |-> access
                        \o (IF has_value THEN <<HostCall("get_balance", 0)>> ELSE <<>>)
                        \o <<HostCall("call", dst)>>,
              mem_cost |-> g1 - m2.gas_left]

(***************************************************************************)
(* The invoke wrappers and the inline cases of the dispatch switch: what   *)
(* a routine's outcome does to state.status, and whether the loop exits.   *)
(***************************************************************************)
\* invoke<decltype(&add)>: the routine cannot fail.
invoke_add(cur) == [status |-> cur, terminate |-> FALSE]

\* A wrapper that records the failure but lets the loop go on.
invoke_exp_no_exit(st, cur) ==
    IF st # EVMC_SUCCESS
    THEN [status |-> st, terminate |-> FALSE]
    ELSE [status |-> cur, terminate |-> FALSE]

\* invoke<decltype(&exp)>: a routine returning a status.
invoke_exp(st, cur) ==
    IF st # EVMC_SUCCESS
    THEN [status |-> st, terminate |-> TRUE]
    ELSE [status |-> cur, terminate |-> FALSE]

\* A wrapper that exits without storing the token's status.
invoke_stop_drops_status(token_status) == [status |-> EVMC_SUCCESS, terminate |-> TRUE]

\* invoke<decltype(&stop)>: a terminator returning a StopToken.
invoke_stop(token_status) == [status |-> token_status, terminate |-> TRUE]

\* case OP_X: { status_code = x(state); if (status_code != EVMC_SUCCESS)
\*              { state.status = status_code; goto exit; } DISPATCH_NEXT(); }
inline_case(st, cur) ==
    IF st # EVMC_SUCCESS
    THEN [status |-> st, terminate |-> TRUE]
    ELSE [status |-> cur, terminate |-> FALSE]

\* case OP_X: x(state); DISPATCH_NEXT();
dispatch_next(cur) == [status |-> cur, terminate |-> FALSE]

\* A jump case that does not test r.status.
jump_case_unchecked(r, cur) == [status |-> cur, terminate |-> FALSE, pc |-> r.pc]

\* case OP_JUMP: { r = jump(state, pc); if (r.status != EVMC_SUCCESS)
\*                 { state.status = r.status; goto exit; }
\*                 code_it = code + r.pc; DISPATCH(); }
jump_case(r, cur) ==
    IF r.status # EVMC_SUCCESS
    THEN [status |-> r.status, terminate |-> TRUE, pc |-> 0]
    ELSE [status |-> cur, terminate |-> FALSE, pc |-> r.pc]

(***************************************************************************)
(* The second dispatch variant (lib/evmone/execution.cpp, from line 188):  *)
(* its invoke wrappers return the code pointer to continue at, or nullptr  *)
(* to leave the loop.  A code pointer is modelled by its offset from the   *)
(* start of the padded code.                                               *)
(***************************************************************************)
\* The null code pointer: no offset.
nullptr == -1

\* The pointer-returning routines of the second variant: push<n>, pc.
push_next(code_it, n) == code_it + n + 1

pc_next(code_it) == code_it + 1

\* jump of the second variant: the status is stored by the routine.
jump_next(map, dst, cur) ==
    IF dst >= Len(map) \/ ~map[dst + 1]
    THEN [status |-> EVMC_BAD_JUMP_DESTINATION, next |-> nullptr]
    ELSE [status |-> cur, next |-> dst]

\* jumpi of the second variant.
jumpi_next(map, dst, cond, cur, code_it) ==
    IF cond # 0 THEN jump_next(map, dst, cur)
    ELSE [status |-> cur, next |-> code_it + 1]

\* invoke<decltype(&add)>: instr_fn(state); return pc + 1;
invoke_add_next(cur, code_it) == [status |-> cur, next |-> code_it + 1]

\* A wrapper that goes on at pc + 1 after a failure.
invoke_exp_next_no_exit(st, cur, code_it) ==
    IF st # EVMC_SUCCESS
    THEN [status |-> st, next |-> code_it + 1]
    ELSE [status |-> cur, next |-> code_it + 1]

\* invoke<decltype(&exp)>: nullptr on a failure status, else pc + 1.
invoke_exp_next(st, cur, code_it) ==
    IF st # EVMC_SUCCESS
    THEN [status |-> st, next |-> nullptr]
    ELSE [status |-> cur, next |-> code_it + 1]

\* invoke<decltype(&push<1>)>: return instr_fn(state, pc);
invoke_push_next(r) == r

\* invoke<decltype(&stop)>: state.status = token.status; return nullptr;
invoke_stop_next(token_status) == [status |-> token_status, next |-> nullptr]

(***************************************************************************)
(* The dispatch loop of execute<TracingEnabled>.                           *)
(***************************************************************************)
\* const auto op = *code_it;
Fetch == padded_code[pc + 1]

\* check_requirements(instruction_table, state, op)
Req == check_requirements(InstructionTable(Fetch), gas_left, Len(stack))

\* The loop is at an instruction `op`, checked or not.
ReadyUnchecked(op) == phase = "loop" /\ Fetch = op

\* The loop is at an instruction `op` that passed the requirement check.
Ready(op) == phase = "loop" /\ Fetch = op /\ Req.status = EVMC_SUCCESS

\* History of the dispatched instruction.
\* A notification to the tracer.
Notification(event, offset) == [event |-> event, offset |-> offset]

\* The runs whose states are recorded: those that are made twice.
Observed == <<code, msg_gas, msg_static>> \in RerunInputs

\* The state of the run as an observer of the loop sees it.
Snapshot ==
    [pc |-> pc, gas_left |-> gas_left, stack |-> stack, memory |-> memory,
     status |-> status]

\* notify_instruction_start for the STOP of the padding as well.
instruction_start_padding(enabled, offset, code_size, t) ==
    IF enabled
    THEN Append(t, Notification("instruction_start", offset))
    ELSE t

\* if constexpr (TracingEnabled): notify_instruction_start, unless the
\* offset is in the padding.
instruction_start(enabled, offset, code_size, t) ==
    IF enabled /\ offset < code_size
    THEN Append(t, Notification("instruction_start", offset))
    ELSE t

\* A loop that notifies the tracer only after the requirement check passed.
DispatchedAfterCheck(invoked) ==
    /\ last' = [pc |-> pc, op |-> Fetch, gas |-> gas_left, height |-> Len(stack),
                top |-> Item(stack, 0), second |-> Item(stack, 1),
                invoked |-> invoked]
    /\ trace' = IF invoked THEN instruction_start(tracing, pc, Len(code), trace)
                ELSE trace
    /\ history' = IF Observed THEN Append(history, Snapshot) ELSE history

\* The top of an iteration: the opcode is fetched and the tracer notified.
Dispatched(invoked) ==
    /\ last' = [pc |-> pc, op |-> Fetch, gas |-> gas_left, height |-> Len(stack),
                top |-> Item(stack, 0), second |-> Item(stack, 1),
                invoked |-> invoked]
    /\ trace' = instruction_start(tracing, pc, Len(code), trace)
    /\ history' = IF Observed THEN Append(history, Snapshot) ELSE history

\* The stack effect of a routine popping `pops` items and pushing `pushed`.
StackEffect(pops, pushed) ==
    /\ stack' = PopN(stack, pops) \o pushed
    /\ stack_misuse' = (stack_misuse \/ StackMisuse(stack, pops, Len(pushed)))

\* The wrapper's outcome w ends the loop (goto exit) or continues at next_pc.
LoopStep(w, next_pc) ==
    /\ status' = w.status
    /\ phase' = IF w.terminate THEN "exit" ELSE "loop"
    /\ pc' = IF w.terminate THEN pc ELSE next_pc

\* INSTR_IMPL of the second variant:
\* if (code_it = invoke(op2fn::OPCODE, state, code_it); !code_it) goto exit;
LoopStepNext(n) ==
    /\ status' = n.status
    /\ phase' = IF n.next = nullptr THEN "exit" ELSE "loop"
    /\ pc' = n.next

\* The outcome of a case that the two variants write differently: w and
\* next_pc in the first, the wrapper's pointer n in the second.
Step(w, next_pc, n) ==
    IF variant = "terminate" THEN LoopStep(w, next_pc) ELSE LoopStepNext(n)

\* if constexpr (TracingEnabled): notify_execution_start.
execution_start(enabled, t) ==
    IF enabled THEN Append(t, Notification("execution_start", -1)) ELSE t

\* if constexpr (TracingEnabled): notify_execution_end.
execution_end(enabled, t) ==
    IF enabled THEN Append(t, Notification("execution_end", -1)) ELSE t

\* The entry point: analyze the code, construct the state, enter the loop.
Enter ==
    /\ phase = "entry"
    /\ LET a == AnalyzeScan(code)
       IN  /\ jumpdest_map' = a.map
           /\ \E g \in [UninitOffsets(code, a.i) -> GarbageBytes] :
                 padded_code' = PaddedCode(code, a.i, g)
    /\ gas_left' = msg_gas
    /\ trace' = execution_start(tracing, trace)
    /\ phase' = "loop"
    /\ UNCHANGED <<input_vars, pc, stack, memory, status, output_vars, host_calls,
                   result, last, stack_misuse, mem_charged, history, idle_vars>>

\* The requirement check fails: state.status = status; goto exit.
PreflightFail ==
    /\ phase = "loop"
    /\ Req.status # EVMC_SUCCESS
    /\ status' = Req.status
    /\ gas_left' = Req.gas_left
    /\ phase' = "exit"
    /\ Dispatched(FALSE)
    /\ UNCHANGED <<input_vars, analysis_vars, pc, stack, memory, output_vars,
                   host_calls, result, stack_misuse, mem_charged, idle_vars>>

OpStop ==
    /\ Ready(OP_STOP)
    /\ Step(invoke_stop(EVMC_SUCCESS), pc + 1, invoke_stop_next(EVMC_SUCCESS))
    /\ gas_left' = Req.gas_left
    /\ Dispatched(TRUE)
    /\ UNCHANGED <<input_vars, analysis_vars, stack, memory, output_vars,
                   host_calls, result, stack_misuse, mem_charged, idle_vars>>

OpAdd ==
    /\ Ready(OP_ADD)
    /\ StackEffect(2, <<Item(stack, 0) + Item(stack, 1)>>)
    /\ Step(invoke_add(status), pc + 1, invoke_add_next(status, pc))
    /\ gas_left' = Req.gas_left
    /\ Dispatched(TRUE)
    /\ UNCHANGED <<input_vars, analysis_vars, memory, output_vars, host_calls,
                   result, mem_charged, idle_vars>>

OpExp ==
    /\ Ready(OP_EXP)
    /\ LET g == Req.gas_left - significant_bytes(Item(stack, 1)) * ExpByteCost
           st == IF g < 0 THEN EVMC_OUT_OF_GAS ELSE EVMC_SUCCESS
       IN  /\ gas_left' = g
           /\ IF g < 0
              THEN StackEffect(1, <<>>)
              ELSE StackEffect(2, <<Item(stack, 0) ^ Item(stack, 1)>>)
           /\ Step(invoke_exp(st, status), pc + 1,
                   invoke_exp_next(st, status, pc))
    /\ Dispatched(TRUE)
    /\ UNCHANGED <<input_vars, analysis_vars, memory, output_vars, host_calls,
                   result, mem_charged, idle_vars>>

OpPop ==
    /\ Ready(OP_POP)
    /\ StackEffect(1, <<>>)
    /\ LoopStep(dispatch_next(status), pc + 1)
    /\ gas_left' = Req.gas_left
    /\ Dispatched(TRUE)
    /\ UNCHANGED <<input_vars, analysis_vars, memory, output_vars, host_calls,
                   result, mem_charged, idle_vars>>

OpMstore ==
    /\ Ready(OP_MSTORE)
    /\ LET m == check_memory(Req.gas_left, Len(memory), Item(stack, 0), 32)
           st == IF m.ok THEN EVMC_SUCCESS ELSE EVMC_OUT_OF_GAS
       IN  /\ gas_left' = m.gas_left
           /\ memory' = IF m.ok
                        THEN StoreWord(Resize(memory, m.msize), Item(stack, 0),
                                       Item(stack, 1))
                        ELSE memory
           /\ LoopStep(inline_case(st, status), pc + 1)
           /\ mem_charged' = mem_charged + (Req.gas_left - m.gas_left)
    /\ StackEffect(2, <<>>)
    /\ Dispatched(TRUE)
    /\ UNCHANGED <<input_vars, analysis_vars, output_vars, host_calls, result,
                   idle_vars>>

\* case OP_SLOAD
OpSload ==
    /\ Ready(OP_SLOAD)
    /\ LET r == sload(Req.gas_left, Item(stack, 0), host)
       IN  /\ gas_left' = r.gas_left
           /\ host_calls' = host_calls \o r.calls
           /\ StackEffect(1, r.pushed)
           /\ LoopStep(inline_case(r.status, status), pc + 1)
    /\ Dispatched(TRUE)
    /\ UNCHANGED <<input_vars, analysis_vars, memory, output_vars, result,
                   mem_charged, idle_vars>>

\* case OP_SSTORE
OpSstore ==
    /\ Ready(OP_SSTORE)
    /\ LET r == sstore(Req.gas_left, msg_static, Item(stack, 0), Item(stack, 1), host)
       IN  /\ gas_left' = r.gas_left
           /\ host_calls' = host_calls \o r.calls
           /\ LoopStep(inline_case(r.status, status), pc + 1)
    /\ StackEffect(2, <<>>)
    /\ Dispatched(TRUE)
    /\ UNCHANGED <<input_vars, analysis_vars, memory, output_vars, result,
                   mem_charged, idle_vars>>

\* case OP_CALL
OpCall ==
    /\ Ready(OP_CALL)
    /\ LET r == call(Req.gas_left, Len(memory), msg_static, msg_depth,
                     [k \in 1..7 |-> Item(stack, k - 1)], host)
       IN  /\ gas_left' = r.gas_left
           /\ memory' = Resize(memory, r.msize)
           /\ host_calls' = host_calls \o r.calls
           /\ StackEffect(7, r.pushed)
           /\ mem_charged' = mem_charged + r.mem_cost
           /\ LoopStep(inline_case(r.status, status), pc + 1)
    /\ Dispatched(TRUE)
    /\ UNCHANGED <<input_vars, analysis_vars, output_vars, result, idle_vars>>

OpJump ==
    /\ Ready(OP_JUMP)
    /\ LET w == jump_case(jump_impl(jumpdest_map, Item(stack, 0)), status)
       IN  Step(w, w.pc,
                invoke_push_next(jump_next(jumpdest_map, Item(stack, 0), status)))
    /\ StackEffect(1, <<>>)
    /\ gas_left' = Req.gas_left
    /\ Dispatched(TRUE)
    /\ UNCHANGED <<input_vars, analysis_vars, memory, output_vars, host_calls,
                   result, mem_charged, idle_vars>>

OpJumpi ==
    /\ Ready(OP_JUMPI)
    /\ LET w == jump_case(jumpi_impl(jumpdest_map, Item(stack, 0), Item(stack, 1), pc),
                          status)
       IN  Step(w, w.pc,
                invoke_push_next(jumpi_next(jumpdest_map, Item(stack, 0),
                                            Item(stack, 1), status, pc)))
    /\ StackEffect(2, <<>>)
    /\ gas_left' = Req.gas_left
    /\ Dispatched(TRUE)
    /\ UNCHANGED <<input_vars, analysis_vars, memory, output_vars, host_calls,
                   result, mem_charged, idle_vars>>

OpPc ==
    /\ Ready(OP_PC)
    /\ StackEffect(0, <<pc>>)
    /\ Step(dispatch_next(status), pc + 1,
            invoke_push_next([status |-> status, next |-> pc_next(pc)]))
    /\ gas_left' = Req.gas_left
    /\ Dispatched(TRUE)
    /\ UNCHANGED <<input_vars, analysis_vars, memory, output_vars, host_calls,
                   result, mem_charged, idle_vars>>

OpMsize ==
    /\ Ready(OP_MSIZE)
    /\ StackEffect(0, <<Len(memory)>>)
    /\ LoopStep(dispatch_next(status), pc + 1)
    /\ gas_left' = Req.gas_left
    /\ Dispatched(TRUE)
    /\ UNCHANGED <<input_vars, analysis_vars, memory, output_vars, host_calls,
                   result, mem_charged, idle_vars>>

OpGas ==
    /\ Ready(OP_GAS)
    /\ StackEffect(0, <<Req.gas_left>>)
    /\ LoopStep(dispatch_next(status), pc + 1)
    /\ gas_left' = Req.gas_left
    /\ Dispatched(TRUE)
    /\ UNCHANGED <<input_vars, analysis_vars, memory, output_vars, host_calls,
                   result, mem_charged, idle_vars>>

OpJumpdest ==
    /\ Ready(OP_JUMPDEST)
    /\ LoopStep(dispatch_next(status), pc + 1)
    /\ gas_left' = Req.gas_left
    /\ Dispatched(TRUE)
    /\ UNCHANGED <<input_vars, analysis_vars, stack, memory, output_vars,
                   host_calls, result, stack_misuse, mem_charged, idle_vars>>

\* case OP_PUSHn: code_it = code + push<n>(state, pc).pc; DISPATCH();
OpPush ==
    /\ phase = "loop"
    /\ Fetch \in OP_PUSH1..OP_PUSH32
    /\ Req.status = EVMC_SUCCESS
    /\ StackEffect(0, <<push_value(padded_code, pc, PushLen(Fetch))>>)
    /\ Step(dispatch_next(status), pc + 1 + PushLen(Fetch),
            invoke_push_next([status |-> status,
                              next |-> push_next(pc, PushLen(Fetch))]))
    /\ gas_left' = Req.gas_left
    /\ Dispatched(TRUE)
    /\ UNCHANGED <<input_vars, analysis_vars, memory, output_vars, host_calls,
                   result, mem_charged, idle_vars>>

OpDup1 ==
    /\ Ready(OP_DUP1)
    /\ stack' = Append(stack, Item(stack, 0))
    /\ stack_misuse' = (stack_misuse \/ StackMisuse(stack, 1, 2))
    /\ LoopStep(dispatch_next(status), pc + 1)
    /\ gas_left' = Req.gas_left
    /\ Dispatched(TRUE)
    /\ UNCHANGED <<input_vars, analysis_vars, memory, output_vars, host_calls,
                   result, mem_charged, idle_vars>>

\* return_<StatusCode>: the memory check, then the output is captured.
return_impl(gas, msize, offset, size, status_code) ==
    LET m == check_memory(gas, msize, offset, size)
    IN  [status |-> IF m.ok THEN status_code ELSE EVMC_OUT_OF_GAS,
         gas_left |-> m.gas_left,
         msize |-> m.msize,
         captured |-> m.ok]

\* The terminators RETURN (EVMC_SUCCESS) and REVERT (EVMC_REVERT).
ReturnWith(status_code) ==
    LET r == return_impl(Req.gas_left, Len(memory), Item(stack, 0), Item(stack, 1),
                         status_code)
    IN  /\ gas_left' = r.gas_left
        /\ memory' = Resize(memory, r.msize)
        /\ output_size' = IF r.captured THEN Item(stack, 1) ELSE output_size
        /\ output_offset' = IF r.captured /\ Item(stack, 1) # 0
                            THEN Item(stack, 0) ELSE output_offset
        /\ Step(invoke_stop(r.status), pc + 1, invoke_stop_next(r.status))
        /\ mem_charged' = mem_charged + (Req.gas_left - r.gas_left)
        /\ stack_misuse' = (stack_misuse \/ StackMisuse(stack, 2, 2))
        /\ Dispatched(TRUE)
        /\ UNCHANGED <<input_vars, analysis_vars, stack, host_calls, result,
                       idle_vars>>

OpReturn == Ready(OP_RETURN) /\ ReturnWith(EVMC_SUCCESS)

OpRevert == Ready(OP_REVERT) /\ ReturnWith(EVMC_REVERT)

OpInvalid ==
    /\ Ready(OP_INVALID)
    /\ Step(invoke_stop(EVMC_INVALID_INSTRUCTION), pc + 1,
            invoke_stop_next(EVMC_INVALID_INSTRUCTION))
    /\ gas_left' = Req.gas_left
    /\ Dispatched(TRUE)
    /\ UNCHANGED <<input_vars, analysis_vars, stack, memory, output_vars,
                   host_calls, result, stack_misuse, mem_charged, idle_vars>>

\* selfdestruct: refused in a static call, else forwarded to the host.
OpSelfdestruct ==
    /\ Ready(OP_SELFDESTRUCT)
    /\ IF msg_static
       THEN /\ Step(invoke_stop(EVMC_STATIC_MODE_VIOLATION), pc + 1,
                    invoke_stop_next(EVMC_STATIC_MODE_VIOLATION))
            /\ UNCHANGED host_calls
       ELSE /\ Step(invoke_stop(EVMC_SUCCESS), pc + 1, invoke_stop_next(EVMC_SUCCESS))
            /\ host_calls' = Append(host_calls,
                                    [call |-> "selfdestruct", arg |-> Item(stack, 0)])
    /\ gas_left' = Req.gas_left
    /\ stack_misuse' = (stack_misuse \/ StackMisuse(stack, 1, 1))
    /\ Dispatched(TRUE)
    /\ UNCHANGED <<input_vars, analysis_vars, stack, memory, output_vars, result,
                   mem_charged, idle_vars>>

(***************************************************************************)
(* Result assembly: the exit label of execute<TracingEnabled>.             *)
(***************************************************************************)
\* Result assembly that hands out state.gas_left whatever the status.
result_gas_unconditional(st, gas) == gas

\* (status == EVMC_SUCCESS || status == EVMC_REVERT) ? state.gas_left : 0
\* No gas reported by the traced instantiation.
result_gas_traced(st, gas) ==
    IF (st = EVMC_SUCCESS \/ st = EVMC_REVERT) /\ ~tracing THEN gas ELSE 0

result_gas(st, gas) == IF st = EVMC_SUCCESS \/ st = EVMC_REVERT THEN gas ELSE 0

\* output_size != 0 ? &memory[output_offset] : nullptr, output_size
\* (a byte read past the end of memory is shown as -1).
result_output(mem, offset, size) ==
    IF size # 0
    THEN [k \in 1..size |-> IF offset + k <= Len(mem) THEN mem[offset + k] ELSE -1]
    ELSE <<>>

Exit ==
    /\ phase = "exit"
    /\ result' = [status_code |-> status,
                  gas_left |-> result_gas(status, gas_left),
                  output |-> result_output(memory, output_offset, output_size)]
    /\ trace' = execution_end(tracing, trace)
    /\ history' = IF Observed THEN Append(history, Snapshot) ELSE history
    /\ phase' = "done"
    /\ UNCHANGED <<input_vars, analysis_vars, pc, gas_left, stack, memory, status,
                   output_vars, host_calls, last, stack_misuse,
                   mem_charged, idle_vars>>

(***************************************************************************)
(* The block-based prototype interpreter (lib/evmone/execution.cpp,        *)
(* lines 1-187).  The model runs it on the same code and gas after the     *)
(* baseline interpreter has returned, when every instruction of the code   *)
(* has a routine in the prototype's op_table.                              *)
(***************************************************************************)
\* A uint256 argument of check_memory: the value hi * 2^31 + lo, with
\* 0 <= lo < 2^31.  Stack words of the model are below 2^31 (hi = 0).
U256(hi, lo) == [hi |-> hi, lo |-> lo]

\* limit < x, for limit = uint32_t(-1) = 2^32 - 1.
ExceedsLimit(x) == x.hi >= 2

\* static_cast<int64_t>(x) of a word within the limit.  Words from 2^31 to
\* 2^32 - 1 are beyond the integers of the model and not among its inputs.
AsInt64(x) == x.hi * 2147483647 + x.hi + x.lo

\* check_memory with the word count rounded down ((new_size) / 32).
proto_check_memory_floor(st, offset, size) ==
    IF size = U256(0, 0)
    THEN [ok |-> TRUE, st |-> st]
    ELSE IF ExceedsLimit(offset) \/ ExceedsLimit(size)
    THEN [ok |-> FALSE, st |-> [st EXCEPT !.run = FALSE, !.status = EVMC_OUT_OF_GAS]]
    ELSE LET o == AsInt64(offset)
             sz == AsInt64(size)
             m == Len(st.memory)
             new_size == o + sz
         IN  IF m < sz
             THEN LET w == new_size \div 32
                      new_cost == 3 * w + (w * w) \div 512
                      cost == new_cost - st.memory_prev_cost
                      charged == [st EXCEPT !.memory_prev_cost = new_cost,
                                            !.gas_left = @ - cost]
                  IN  IF charged.gas_left < 0
                      THEN [ok |-> FALSE,
                            st |-> [charged EXCEPT !.run = FALSE,
                                                   !.status = EVMC_OUT_OF_GAS]]
                      ELSE [ok |-> TRUE,
                            st |-> [charged EXCEPT !.memory = Resize(@, new_size)]]
             ELSE [ok |-> TRUE, st |-> st]

\* check_memory with the limit tested before size == 0.
proto_check_memory_limit_first(st, offset, size) ==
    IF ExceedsLimit(offset) \/ ExceedsLimit(size)
    THEN [ok |-> FALSE, st |-> [st EXCEPT !.run = FALSE, !.status = EVMC_OUT_OF_GAS]]
    ELSE IF size = U256(0, 0)
    THEN [ok |-> TRUE, st |-> st]
    ELSE LET o == AsInt64(offset)
             sz == AsInt64(size)
             m == Len(st.memory)
             new_size == o + sz
         IN  IF m < sz
             THEN LET w == (new_size + 31) \div 32
                      new_cost == 3 * w + (w * w) \div 512
                      cost == new_cost - st.memory_prev_cost
                      charged == [st EXCEPT !.memory_prev_cost = new_cost,
                                            !.gas_left = @ - cost]
                  IN  IF charged.gas_left < 0
                      THEN [ok |-> FALSE,
                            st |-> [charged EXCEPT !.run = FALSE,
                                                   !.status = EVMC_OUT_OF_GAS]]
                      ELSE [ok |-> TRUE,
                            st |-> [charged EXCEPT !.memory = Resize(@, new_size)]]
             ELSE [ok |-> TRUE, st |-> st]

\* check_memory(state, offset, size): whether the access may proceed, and
\* the state as the check leaves it.
proto_check_memory(st, offset, size) ==
    IF size = U256(0, 0)
    THEN [ok |-> TRUE, st |-> st]
    ELSE IF ExceedsLimit(offset) \/ ExceedsLimit(size)
    THEN [ok |-> FALSE, st |-> [st EXCEPT !.run = FALSE, !.status = EVMC_OUT_OF_GAS]]
    ELSE LET o == AsInt64(offset)
             sz == AsInt64(size)
             m == Len(st.memory)
             new_size == o + sz
         IN  IF m < sz
             THEN LET w == (new_size + 31) \div 32
                      new_cost == 3 * w + (w * w) \div 512
                      cost == new_cost - st.memory_prev_cost
                      charged == [st EXCEPT !.memory_prev_cost = new_cost,
                                            !.gas_left = @ - cost]
                  IN  IF charged.gas_left < 0
                      THEN [ok |-> FALSE,
                            st |-> [charged EXCEPT !.run = FALSE,
                                                   !.status = EVMC_OUT_OF_GAS]]
                      ELSE [ok |-> TRUE,
                            st |-> [charged EXCEPT !.memory = Resize(@, new_size)]]
             ELSE [ok |-> TRUE, st |-> st]

\* op_table: the opcodes that have a routine.
ProtoOps ==
    {OP_STOP, OP_ADD, OP_GAS, OP_POP, OP_MSTORE, OP_RETURN} \cup (OP_PUSH1..OP_PUSH32)

(***************************************************************************)
(* The prototype's analysis (analysis.cpp): the instructions in code       *)
(* order with their push data, grouped into blocks that end at a           *)
(* terminator; a block carries the sum of its base costs, the stack height *)
(* it requires and the most it grows the stack.                            *)
(***************************************************************************)
\* Items pushed minus items popped.
StackChange(op) ==
    CASE op = OP_ADD -> -1
      [] op = OP_POP -> -1
      [] op = OP_MSTORE -> -2
      [] op = OP_RETURN -> -2
      [] op = OP_GAS -> 1
      [] op \in OP_PUSH1..OP_PUSH32 -> 1
      [] OTHER -> 0

\* The 32 bytes of a push's data: the n bytes after offset i, right-aligned,
\* zero where the code has ended.
ExtraData(c, i, n) ==
    [k \in 1..32 |->
        IF k <= 32 - n THEN 0
        ELSE LET src == i + 1 + (k - (32 - n))
             IN  IF src <= Len(c) THEN c[src] ELSE 0]

Max(a, b) == IF a >= b THEN a ELSE b

\* The offsets of the instructions of c from offset i on: a PUSH is
\* followed by its data.
RECURSIVE ProtoOffsets(_, _)
ProtoOffsets(c, i) ==
    IF i < Len(c)
    THEN <<i>> \o ProtoOffsets(c, IF c[i + 1] \in OP_PUSH1..OP_PUSH32
                                  THEN i + 1 + PushLen(c[i + 1])
                                  ELSE i + 1)
    ELSE <<>>

\* The sum of the base costs of the instructions from..to of ops.
RECURSIVE SumCost(_, _, _)
SumCost(ops, from, to) ==
    IF to < from THEN 0
    ELSE InstructionTable(ops[to]).gas_cost + SumCost(ops, from, to - 1)

\* The sum of the stack changes of the instructions from..to of ops.
RECURSIVE SumChange(_, _, _)
SumChange(ops, from, to) ==
    IF to < from THEN 0 ELSE StackChange(ops[to]) + SumChange(ops, from, to - 1)

\* The instructions that end a block.
ProtoTerminators == {OP_STOP, OP_RETURN, OP_REVERT, OP_INVALID, OP_SELFDESTRUCT}

\* The block of the instructions from..to of ops: the sum of the base
\* costs, the height the stack must have on entry for every instruction to
\* find its operands, and the most the stack grows over the entry height.
BlockInfo(ops, from, to) ==
    [gas_cost |-> SumCost(ops, from, to),
     stack_req |->
         LET need == {0} \cup
                     {InstructionTable(ops[k]).stack_height_required
                          - SumChange(ops, from, k - 1) : k \in from..to}
         IN  CHOOSE x \in need : \A y \in need : y <= x,
     stack_max |->
         LET grown == {0} \cup {SumChange(ops, from, k) : k \in from..to}
         IN  CHOOSE x \in grown : \A y \in grown : y <= x]

\* analyze(op_table, code, code_size): the instructions in code order, the
\* first of each block carrying the block's index, a final STOP after them;
\* the blocks; the data of the pushes.
ProtoAnalyze(c) ==
    LET offs == ProtoOffsets(c, 0)
        n == Len(offs)
        ops == [k \in 1..n |-> c[offs[k] + 1]]
        starts == {k \in 1..n : k = 1 \/ ops[k - 1] \in ProtoTerminators}
        pushes == {k \in 1..n : ops[k] \in OP_PUSH1..OP_PUSH32}
        before(S, k) == Cardinality({j \in S : j < k})
        end(first) ==
            CHOOSE e \in first..n :
                /\ e = n \/ ops[e] \in ProtoTerminators
                /\ \A j \in first..(e - 1) : ops[j] \notin ProtoTerminators
        nth(S, b) == CHOOSE k \in S : before(S, k) = b - 1
    IN  [instrs |->
             [k \in 1..(n + 1) |->
                 IF k = n + 1
                 THEN [op |-> OP_STOP, block_index |-> -1, extra_data_index |-> 0]
                 ELSE [op |-> ops[k],
                       block_index |-> IF k \in starts THEN before(starts, k) ELSE -1,
                       extra_data_index |->
                           IF k \in pushes THEN before(pushes, k) ELSE 0]],
         blocks |->
             [b \in 1..Cardinality(starts) |->
                 BlockInfo(ops, nth(starts, b), end(nth(starts, b)))],
         extra |->
             [e \in 1..Cardinality(pushes) |->
                 ExtraData(c, offs[nth(pushes, e)], PushLen(ops[nth(pushes, e)]))]]

\* The analysis of every code among the inputs.
ProtoAnalysis == [c \in {in[1] : in \in Inputs} |-> ProtoAnalyze(c)]

\* Every instruction of the code has a routine in op_table.
ProtoCode(c) ==
    \A k \in 1..Len(ProtoAnalysis[c].instrs) : ProtoAnalysis[c].instrs[k].op \in ProtoOps

(***************************************************************************)
(* execution.cpp, execute(gas, code, code_size): one action per iteration  *)
(* of while (state.run), and one for the result.                           *)
(***************************************************************************)
ProtoInstr == p_analysis.instrs[p_state.pc + 1]

\* The checks at the first instruction of a block: the status, and gas_left
\* as they leave it.
proto_block_check(instr, blocks, gas, stack_size) ==
    IF instr.block_index >= 0
    THEN LET block == blocks[instr.block_index + 1]
             g == gas - block.gas_cost
         IN  IF g <= 0
             THEN [status |-> EVMC_OUT_OF_GAS, gas_left |-> g]
             ELSE IF stack_size < block.stack_req
                  THEN [status |-> EVMC_STACK_UNDERFLOW, gas_left |-> g]
                  ELSE IF stack_size + block.stack_max > 1024
                       THEN [status |-> EVMC_STACK_OVERFLOW, gas_left |-> g]
                       ELSE [status |-> EVMC_SUCCESS, gas_left |-> g]
    ELSE [status |-> EVMC_SUCCESS, gas_left |-> gas]

ProtoReq ==
    proto_block_check(ProtoInstr, p_analysis.blocks, p_state.gas_left,
                      Len(p_state.stack))

\* The stack items the routine of op reads.
ProtoItems(op) ==
    CASE op \in {OP_ADD, OP_MSTORE, OP_RETURN} -> 2
      [] op = OP_POP -> 1
      [] OTHER -> 0

\* The iteration passes the block checks and calls the routine of op, on a
\* stack that holds the items the routine reads.
ProtoReady(ops) ==
    /\ p_phase = "loop"
    /\ ProtoReq.status = EVMC_SUCCESS
    /\ ProtoInstr.op \in ops
    /\ Len(p_state.stack) >= ProtoItems(ProtoInstr.op)

\* The state the routine is called on: the block's cost charged, pc advanced.
ProtoCalled == [p_state EXCEPT !.gas_left = ProtoReq.gas_left, !.pc = @ + 1]

ProtoRan(ran) ==
    p_last' = [pc |-> p_state.pc, op |-> ProtoInstr.op, gas |-> p_state.gas_left,
               block_cost |-> IF ProtoInstr.block_index >= 0
                              THEN p_analysis.blocks[ProtoInstr.block_index + 1].gas_cost
                              ELSE -1,
               msize |-> Len(p_state.memory), height |-> Len(p_state.stack),
               top |-> Item(p_state.stack, 0), second |-> Item(p_state.stack, 1),
               ran |-> ran]

\* The routine has returned the state st.
ProtoAfter(st) ==
    /\ p_state' = st
    /\ p_phase' = IF st.run THEN "loop" ELSE "exit"
    /\ ProtoRan(TRUE)

baseline_vars ==
    <<input_vars, phase, analysis_vars, pc, gas_left, stack, memory, status,
      output_vars, host_calls, result, last, stack_misuse, mem_charged,
      tracing, previous, variant, observed_vars>>

\* auto analysis = analyze(op_table, code, code_size); state.gas_left = gas;
ProtoEnter ==
    /\ phase = "done"
    /\ p_phase = "idle"
    /\ ProtoCode(code)
    /\ p_analysis' = ProtoAnalysis[code]
    /\ p_state' = [NoProtoState EXCEPT !.gas_left = msg_gas]
    /\ p_phase' = "loop"
    /\ UNCHANGED <<p_result, p_last, p_mem_charged, baseline_vars, harness_vars,
                   mem_vars>>

\* A block check fails: state.status = ...; break.
ProtoBlockFail ==
    /\ p_phase = "loop"
    /\ ProtoReq.status # EVMC_SUCCESS
    /\ p_state' = [p_state EXCEPT !.gas_left = ProtoReq.gas_left,
                                  !.status = ProtoReq.status]
    /\ p_phase' = "exit"
    /\ ProtoRan(FALSE)
    /\ UNCHANGED <<p_analysis, p_result, p_mem_charged, baseline_vars,
                   harness_vars, mem_vars>>

\* op_stop
ProtoOpStop ==
    /\ ProtoReady({OP_STOP})
    /\ ProtoAfter([ProtoCalled EXCEPT !.run = FALSE])
    /\ UNCHANGED <<p_analysis, p_result, p_mem_charged, baseline_vars,
                   harness_vars, mem_vars>>

\* op_add: item(1) += item(0); pop_back()
ProtoOpAdd ==
    /\ ProtoReady({OP_ADD})
    /\ ProtoAfter([ProtoCalled EXCEPT
                      !.stack = Append(PopN(@, 2), Item(@, 1) + Item(@, 0))])
    /\ UNCHANGED <<p_analysis, p_result, p_mem_charged, baseline_vars,
                   harness_vars, mem_vars>>

\* op_gas: an empty body.
ProtoOpGas ==
    /\ ProtoReady({OP_GAS})
    /\ ProtoAfter(ProtoCalled)
    /\ UNCHANGED <<p_analysis, p_result, p_mem_charged, baseline_vars,
                   harness_vars, mem_vars>>

\* op_push_full: push_back(be::uint256(extra->bytes))
ProtoOpPush ==
    /\ ProtoReady(OP_PUSH1..OP_PUSH32)
    /\ ProtoAfter([ProtoCalled EXCEPT
                      !.stack = Append(@, BigEndian(
                                    p_analysis.extra[ProtoInstr.extra_data_index + 1]))])
    /\ UNCHANGED <<p_analysis, p_result, p_mem_charged, baseline_vars,
                   harness_vars, mem_vars>>

\* op_pop
ProtoOpPop ==
    /\ ProtoReady({OP_POP})
    /\ ProtoAfter([ProtoCalled EXCEPT !.stack = PopN(@, 1)])
    /\ UNCHANGED <<p_analysis, p_result, p_mem_charged, baseline_vars,
                   harness_vars, mem_vars>>

\* op_mstore.  When check_memory lets through a store that does not lie in
\* state.memory, intx::be::store writes outside the buffer: the behaviour is
\* undefined; the run either goes on, the bytes inside the buffer written, or
\* the model stops following it.
ProtoOpMstore ==
    /\ ProtoReady({OP_MSTORE})
    /\ LET index == Item(p_state.stack, 0)
           x == Item(p_state.stack, 1)
           r == proto_check_memory(ProtoCalled, U256(0, index), U256(0, 32))
           stored == [r.st EXCEPT !.memory = StoreWord(@, index, x),
                                  !.stack = PopN(@, 2)]
       IN  /\ p_mem_charged' = p_mem_charged + (ProtoCalled.gas_left - r.st.gas_left)
           /\ IF ~r.ok
              THEN ProtoAfter(r.st)
              ELSE IF index + 32 <= Len(r.st.memory)
                   THEN ProtoAfter(stored)
                   ELSE \/ ProtoAfter(stored)
                        \/ /\ p_state' = r.st
                           /\ p_phase' = "undefined"
                           /\ ProtoRan(TRUE)
    /\ UNCHANGED <<p_analysis, p_result, baseline_vars, harness_vars, mem_vars>>

\* op_return: the output range is recorded; nothing is checked or charged.
ProtoOpReturn ==
    /\ ProtoReady({OP_RETURN})
    /\ ProtoAfter([ProtoCalled EXCEPT !.run = FALSE,
                                      !.output_offset = Item(p_state.stack, 0),
                                      !.output_size = Item(p_state.stack, 1)])
    /\ UNCHANGED <<p_analysis, p_result, p_mem_charged, baseline_vars,
                   harness_vars, mem_vars>>

\* A routine is called on a stack that does not hold the items it reads
\* (item(k) and pop_back() outside the vector): the behaviour is undefined
\* and the model stops following the run.
ProtoStackFault ==
    /\ p_phase = "loop"
    /\ ProtoReq.status = EVMC_SUCCESS
    /\ Len(p_state.stack) < ProtoItems(ProtoInstr.op)
    /\ p_state' = ProtoCalled
    /\ p_phase' = "undefined"
    /\ ProtoRan(TRUE)
    /\ UNCHANGED <<p_analysis, p_result, p_mem_charged, baseline_vars,
                   harness_vars, mem_vars>>

\* The result: status; gas_left for success and revert, else the zero of
\* evmc_result{}; output_size bytes copied from &memory[output_offset].  A copy
\* that leaves state.memory is undefined behaviour: the bytes outside are
\* whatever the heap holds there, or the model stops following the run.
ProtoExit ==
    /\ p_phase = "exit"
    /\ LET st == p_state
           outside == {k \in 1..st.output_size : st.output_offset + k > Len(st.memory)}
           res(g) ==
               [status_code |-> st.status,
                gas_left |-> IF st.status = EVMC_SUCCESS \/ st.status = EVMC_REVERT
                             THEN st.gas_left ELSE 0,
                output |-> [k \in 1..st.output_size |->
                               IF k \in outside THEN g[k]
                               ELSE st.memory[st.output_offset + k]]]
       IN  \/ /\ \E g \in [outside -> GarbageBytes] : p_result' = res(g)
              /\ p_phase' = "done"
           \/ /\ outside # {}
              /\ p_result' = p_result
              /\ p_phase' = "undefined"
    /\ UNCHANGED <<p_analysis, p_state, p_last, p_mem_charged, baseline_vars,
                   harness_vars, mem_vars>>

ProtoNext ==
    \/ ProtoEnter
    \/ ProtoBlockFail
    \/ ProtoOpStop
    \/ ProtoOpAdd
    \/ ProtoOpGas
    \/ ProtoOpPush
    \/ ProtoOpPop
    \/ ProtoOpMstore
    \/ ProtoOpReturn
    \/ ProtoStackFault
    \/ ProtoExit

BaselineNext ==
    \/ Enter
    \/ PreflightFail
    \/ OpStop
    \/ OpAdd
    \/ OpExp
    \/ OpPop
    \/ OpMstore
    \/ OpSload
    \/ OpSstore
    \/ OpCall
    \/ OpJump
    \/ OpJumpi
    \/ OpPc
    \/ OpMsize
    \/ OpGas
    \/ OpJumpdest
    \/ OpPush
    \/ OpDup1
    \/ OpReturn
    \/ OpRevert
    \/ OpInvalid
    \/ OpSelfdestruct
    \/ Exit

Next ==
    \/ BaselineNext
    \/ ProtoNext

Spec == Init /\ [][Next]_vars

\* The loop is never preempted: a step that can be taken is taken.
FairSpec == Spec /\ WF_vars(Next)

(***************************************************************************)
(* The entry point called twice with the same code and message, with or    *)
(* without a tracer: the second invocation allocates its own padded        *)
(* buffer and starts from a fresh state.                                   *)
(***************************************************************************)
RerunInit ==
    /\ \E in \in RerunInputs :
          /\ code = in[1]
          /\ msg_gas = in[2]
          /\ msg_static = in[3]
          /\ msg_depth \in Depths(in[1])
          /\ host \in Hosts(in[1])
    /\ StateInit
    /\ tracing \in BOOLEAN
    /\ previous = NoRun
    /\ req_in = NoReq
    /\ req_out = NoOutcome
    /\ ProtoIdle
    /\ MemIdle

\* The first invocation has returned; the entry point is called again.
Rerun ==
    /\ phase = "done"
    /\ ~previous.ran
    /\ previous' = [ran |-> TRUE, tracing |-> tracing, padded_code |-> padded_code,
                    result |-> result, trace |-> trace, history |-> history]
    /\ tracing' \in BOOLEAN
    /\ phase' = "entry"
    /\ padded_code' = <<>>
    /\ jumpdest_map' = <<>>
    /\ pc' = 0
    /\ gas_left' = 0
    /\ stack' = <<>>
    /\ memory' = <<>>
    /\ status' = EVMC_SUCCESS
    /\ output_offset' = 0
    /\ output_size' = 0
    /\ host_calls' = <<>>
    /\ result' = NoResult
    /\ last' = NoLast
    /\ stack_misuse' = FALSE
    /\ mem_charged' = 0
    /\ trace' = <<>>
    /\ history' = <<>>
    /\ UNCHANGED <<input_vars, harness_vars, proto_vars, mem_vars, variant>>

RerunNext ==
    \/ BaselineNext
    \/ Rerun

SpecRerun == RerunInit /\ [][RerunNext]_vars

(***************************************************************************)
(* The two dispatch variants on the same code and message: the entry point *)
(* of lib/evmone/baseline.cpp returns, then the entry point of the second  *)
(* half of lib/evmone/execution.cpp is called.  Its analyze, its           *)
(* requirement check, its inline cases and its exit label are the same     *)
(* text; its wrappers and its PUSH, JUMP, JUMPI and PC cases are not.      *)
(***************************************************************************)
VariantsInit ==
    /\ \E in \in RerunInputs :
          /\ code = in[1]
          /\ msg_gas = in[2]
          /\ msg_static = in[3]
          /\ msg_depth \in Depths(in[1])
          /\ host \in Hosts(in[1])
    /\ StateInit
    /\ tracing = FALSE
    /\ previous = NoRun
    /\ req_in = NoReq
    /\ req_out = NoOutcome
    /\ ProtoIdle
    /\ MemIdle

\* The first variant has returned; the second variant's entry point is
\* called with the same arguments.
SecondVariant ==
    /\ phase = "done"
    /\ variant = "terminate"
    /\ previous' = [ran |-> TRUE, tracing |-> tracing, padded_code |-> padded_code,
                    result |-> result, trace |-> trace, history |-> history]
    /\ variant' = "next"
    /\ phase' = "entry"
    /\ padded_code' = <<>>
    /\ jumpdest_map' = <<>>
    /\ pc' = 0
    /\ gas_left' = 0
    /\ stack' = <<>>
    /\ memory' = <<>>
    /\ status' = EVMC_SUCCESS
    /\ output_offset' = 0
    /\ output_size' = 0
    /\ host_calls' = <<>>
    /\ result' = NoResult
    /\ last' = NoLast
    /\ stack_misuse' = FALSE
    /\ mem_charged' = 0
    /\ trace' = <<>>
    /\ history' = <<>>
    /\ UNCHANGED <<input_vars, harness_vars, proto_vars, mem_vars, tracing>>

VariantsNext ==
    \/ BaselineNext
    \/ SecondVariant

SpecVariants == VariantsInit /\ [][VariantsNext]_vars

(***************************************************************************)
(* The analysis on its own, over codes that hold the longest PUSH and a    *)
(* byte above 0x7f.  Every unwritten byte of the buffer holds the same     *)
(* leftover value.                                                         *)
(***************************************************************************)
ScanBytes == {OP_STOP, OP_JUMPDEST, OP_PUSH1, OP_PUSH2, OP_PUSH32, OP_SELFDESTRUCT}

ScanInit ==
    /\ code \in SeqsUpTo(ScanBytes, MaxScanLen)
    /\ msg_gas = 0
    /\ msg_static = FALSE
    /\ msg_depth = 0
    /\ host = NoHost
    /\ StateInit
    /\ tracing = FALSE
    /\ previous = NoRun
    /\ req_in = NoReq
    /\ req_out = NoOutcome
    /\ ProtoIdle
    /\ MemIdle

\* analyze(code, code_size)
Analyze ==
    /\ phase = "entry"
    /\ LET a == AnalyzeScan(code)
       IN  /\ jumpdest_map' = a.map
           /\ \E b \in GarbageBytes :
                 padded_code' = PaddedCode(code, a.i, [k \in UninitOffsets(code, a.i) |-> b])
    /\ phase' = "analyzed"
    /\ UNCHANGED <<input_vars, pc, gas_left, stack, memory, status, output_vars,
                   host_calls, result, last, stack_misuse, mem_charged,
                   observed_vars, idle_vars>>

ScanNext == Analyze

SpecScan == ScanInit /\ [][ScanNext]_vars

(***************************************************************************)
(* The requirement check on its own, over arbitrary table entries.         *)
(***************************************************************************)
ReqInit ==
    /\ req_in \in ReqInputs
    /\ req_out = NoOutcome
    /\ code = <<>>
    /\ msg_gas = 0
    /\ msg_static = FALSE
    /\ msg_depth = 0
    /\ host = NoHost
    /\ StateInit
    /\ tracing = FALSE
    /\ previous = NoRun
    /\ ProtoIdle
    /\ MemIdle

ReqCheck ==
    /\ req_out = NoOutcome
    /\ req_out' = check_requirements(
                      Entry(req_in.gas_cost, req_in.stack_height_required,
                            req_in.can_overflow_stack),
                      req_in.gas, req_in.height)
    /\ UNCHANGED <<input_vars, phase, analysis_vars, pc, gas_left, stack, memory,
                   status, output_vars, host_calls, result, last,
                   stack_misuse, mem_charged, req_in, proto_vars, mem_vars,
                   tracing, previous, variant, observed_vars>>

ReqNext == ReqCheck

SpecReq == ReqInit /\ [][ReqNext]_vars

(***************************************************************************)
(* The memory checks on their own: a sequence of accesses checked by the   *)
(* prototype's check_memory and by the baseline's, each on its own memory, *)
(* from empty memory, until the check fails.                               *)
(***************************************************************************)
\* The offsets tried: inside the first word, on and off word boundaries,
\* and above 2^32 - 1.
MemOffsets ==
    {U256(0, 0), U256(0, 1), U256(0, 32), U256(0, 40), U256(0, 64), U256(0, 100),
     U256(2, 0), U256(5, 7)}

\* The sizes tried: none, the 32 bytes of MSTORE, and above 2^32 - 1.
MemSizes == {U256(0, 0), U256(0, 32), U256(2, 0)}

MemInit ==
    /\ \E g \in 0..MaxMemGas :
          /\ mem_proto = [NoMemState EXCEPT !.gas_left = g]
          /\ mem_base = [NoMemState EXCEPT !.gas_left = g]
    /\ mem_in = NoAccess
    /\ code = <<>>
    /\ msg_gas = 0
    /\ msg_static = FALSE
    /\ msg_depth = 0
    /\ host = NoHost
    /\ StateInit
    /\ tracing = FALSE
    /\ previous = NoRun
    /\ req_in = NoReq
    /\ req_out = NoOutcome
    /\ ProtoIdle

\* The prototype's check of one access.
MemProtoStep(st, offset, size) ==
    LET r == proto_check_memory(st, offset, size)
    IN  [r.st EXCEPT !.charged = @ + (st.gas_left - r.st.gas_left)]

\* The baseline's check of one access (words below 2^31, or no bytes at
\* all); on failure the routine's out_of_gas ends the run.
MemBaseStep(st, offset, size) ==
    LET r == check_memory(st.gas_left, Len(st.memory), AsInt64(offset), AsInt64(size))
    IN  [st EXCEPT !.gas_left = r.gas_left,
                   !.memory = Resize(@, r.msize),
                   !.run = r.ok,
                   !.status = IF r.ok THEN @ ELSE EVMC_OUT_OF_GAS,
                   !.charged = @ + (st.gas_left - r.gas_left)]

MemAccess ==
    /\ mem_proto.run \/ mem_base.run
    /\ \E offset \in MemOffsets, size \in MemSizes :
          /\ mem_in' = [offset |-> offset, size |-> size, tried |-> TRUE]
          /\ mem_proto' = IF mem_proto.run
                          THEN MemProtoStep(mem_proto, offset, size)
                          ELSE mem_proto
          /\ mem_base' = IF mem_base.run /\ (size = U256(0, 0) \/
                                             (offset.hi = 0 /\ size.hi = 0))
                         THEN MemBaseStep(mem_base, offset, size)
                         ELSE mem_base
    /\ UNCHANGED <<baseline_vars, harness_vars, proto_vars>>

MemNext == MemAccess

SpecMem == MemInit /\ [][MemNext]_vars

(***************************************************************************)
(* The prototype's op_mstore on words of any size: the operands are put on *)
(* the stack as uint256 values, then the routine runs.                     *)
(***************************************************************************)
\* The offsets tried: at the start of the memory, across a word boundary,
\* and above 2^32 - 1.
MstoreOffsets == {U256(0, 0), U256(0, 40), U256(2, 0)}

\* The words stored.
MstoreWords == {U256(0, 0), U256(0, 258)}

\* An op_mstore that pops its operands before the memory check.
proto_op_mstore_pops_first(st) ==
    LET index == st.stack[Len(st.stack)]
        x == st.stack[Len(st.stack) - 1]
        r == proto_check_memory([st EXCEPT !.stack = PopN(@, 2)], index, U256(0, 32))
        stored == [r.st EXCEPT !.memory = StoreWord(@, AsInt64(index), AsInt64(x))]
    IN  IF ~r.ok THEN {r.st}
        ELSE IF AsInt64(index) + 32 <= Len(r.st.memory) THEN {stored}
        ELSE {stored, [r.st EXCEPT !.run = FALSE, !.status = "undefined"]}

\* op_mstore: the states the routine can leave.  A store that passed the
\* check but does not lie inside the memory writes outside the vector: the
\* word is stored where the memory reaches, or the run is lost.
proto_op_mstore(st) ==
    LET index == st.stack[Len(st.stack)]
        x == st.stack[Len(st.stack) - 1]
        r == proto_check_memory(st, index, U256(0, 32))
        stored == [r.st EXCEPT !.memory = StoreWord(@, AsInt64(index), AsInt64(x)),
                               !.stack = PopN(@, 2)]
    IN  IF ~r.ok THEN {r.st}
        ELSE IF AsInt64(index) + 32 <= Len(r.st.memory) THEN {stored}
        ELSE {stored, [r.st EXCEPT !.run = FALSE, !.status = "undefined"]}

\* The two operands of an MSTORE are pushed: the word, then the index.
MstorePush ==
    /\ mem_proto.run
    /\ mem_proto.stack = <<>>
    /\ \E index \in MstoreOffsets, x \in MstoreWords :
          mem_proto' = [mem_proto EXCEPT !.stack = <<x, index>>]
    /\ UNCHANGED <<mem_in, mem_base, baseline_vars, harness_vars, proto_vars>>

\* op_mstore runs on the two operands.
MemMstore ==
    /\ mem_proto.run
    /\ Len(mem_proto.stack) = 2
    /\ \E after \in proto_op_mstore(mem_proto) :
          mem_proto' = [after EXCEPT !.charged = @ + (mem_proto.gas_left - after.gas_left)]
    /\ mem_in' = [offset |-> mem_proto.stack[2], size |-> U256(0, 32), tried |-> TRUE]
    /\ UNCHANGED <<mem_base, baseline_vars, harness_vars, proto_vars>>

\* check_memory on its own, for a routine other than op_mstore.
MstoreAccess ==
    /\ mem_proto.run
    /\ mem_proto.stack = <<>>
    /\ \E offset \in MstoreOffsets, size \in MemSizes :
          /\ mem_in' = [offset |-> offset, size |-> size, tried |-> TRUE]
          /\ mem_proto' = MemProtoStep(mem_proto, offset, size)
    /\ UNCHANGED <<mem_base, baseline_vars, harness_vars, proto_vars>>

MstoreNext ==
    \/ MstoreAccess
    \/ MstorePush
    \/ MemMstore

SpecMstore == MemInit /\ [][MstoreNext]_vars


(***************************************************************************)
(* Properties.                                                             *)
(***************************************************************************)
Terminal == phase \in {"exit", "done"}

Defined(op) == InstructionTable(op).gas_cost # Undefined

\* C1: the returned gas_left is the state's gas_left when the final status is
\* success or revert, and 0 for every other status; the returned status is the
\* state's status.
C1_ResultGas ==
    phase = "done" =>
        /\ result.status_code = status
        /\ IF status \in {EVMC_SUCCESS, EVMC_REVERT}
           THEN result.gas_left = gas_left
           ELSE result.gas_left = 0

\* A failure was detected with gas still on the meter, and the result carries 0.
C1_Witness ==
    /\ phase = "done"
    /\ status = EVMC_BAD_JUMP_DESTINATION
    /\ gas_left > 0
    /\ result.gas_left = 0

\* C2: for the instruction dispatched last, an undefined opcode is reported
\* before anything else, then a lack of gas, then a stack overflow, then a stack
\* underflow; the routine is invoked only when all four checks pass, and a
\* failed check leaves the program counter where it was.
C2_CheckOrder ==
    last.op # -1 =>
        LET m == InstructionTable(last.op)
            undefined == m.gas_cost = Undefined
            no_gas == last.gas < m.gas_cost
            overflow == last.height = StackLimit /\ m.can_overflow_stack
            underflow == last.height < m.stack_height_required
        IN  /\ undefined => status = EVMC_UNDEFINED_INSTRUCTION
            /\ ~undefined /\ no_gas => status = EVMC_OUT_OF_GAS
            /\ ~undefined /\ ~no_gas /\ overflow => status = EVMC_STACK_OVERFLOW
            /\ ~undefined /\ ~no_gas /\ ~overflow /\ underflow =>
                   status = EVMC_STACK_UNDERFLOW
            /\ last.invoked <=> ~(undefined \/ no_gas \/ overflow \/ underflow)
            /\ ~last.invoked => pc = last.pc /\ Terminal

\* An ADD met with too little gas and too few stack items: out of gas wins.
C2_Witness ==
    /\ last.op = OP_ADD
    /\ last.gas < 3
    /\ last.height < 2
    /\ status = EVMC_OUT_OF_GAS
    /\ ~last.invoked

\* C3: the requirement check succeeds exactly when the opcode is defined, the
\* gas covers the base cost, the stack is not full for an entry that can
\* overflow it, and the stack holds the items the entry requires.
C3_RequirementsReference ==
    req_out # NoOutcome =>
        (req_out.status = EVMC_SUCCESS <=>
            /\ req_in.gas_cost # Undefined
            /\ req_in.gas >= req_in.gas_cost
            /\ ~(req_in.height = StackLimit /\ req_in.can_overflow_stack)
            /\ req_in.height >= req_in.stack_height_required)

\* A successful check on a full stack with gas exactly the base cost.
C3_Witness ==
    /\ req_out.status = EVMC_SUCCESS
    /\ req_in.height = StackLimit
    /\ req_in.gas = req_in.gas_cost
    /\ req_in.gas_cost > 0
    /\ req_in.stack_height_required > 0

\* The instruction boundaries of a code, from the definition: offset 0, and the
\* offset after each instruction that starts at a boundary inside the code.
Boundaries(c) ==
    LET B[k \in 0..(Len(c) + 32)] ==
            \/ k = 0
            \/ \E j \in 0..(k - 1) :
                  /\ j < Len(c)
                  /\ k = j + 1 + (IF c[j + 1] \in OP_PUSH1..OP_PUSH32
                                   THEN c[j + 1] - OP_PUSH1 + 1 ELSE 0)
                  /\ B[j]
    IN  {k \in 0..(Len(c) + 32) : B[k]}

\* Offset k lies in the data of a PUSH that starts at one of the boundaries bs.
InPushData(c, bs, k) ==
    \E j \in bs :
        /\ j < k
        /\ j < Len(c)
        /\ c[j + 1] \in OP_PUSH1..OP_PUSH32
        /\ k <= j + (c[j + 1] - OP_PUSH1 + 1)

\* C4: the bitmap has one bit per code byte, set exactly at the offsets that
\* hold JUMPDEST and are not inside the data of a PUSH.
C4_BitmapExact ==
    phase # "entry" =>
        LET bs == Boundaries(code)
        IN  /\ Len(jumpdest_map) = Len(code)
            /\ \A k \in 0..(Len(code) - 1) :
                  jumpdest_map[k + 1] <=>
                      (code[k + 1] = OP_JUMPDEST /\ ~InPushData(code, bs, k))

\* A code with a marked JUMPDEST and an unmarked 0x5b inside push data.
C4_Witness ==
    /\ phase # "entry"
    /\ \E j, k \in 1..Len(code) :
          /\ code[j] = OP_JUMPDEST /\ ~jumpdest_map[j]
          /\ code[k] = OP_JUMPDEST /\ jumpdest_map[k]

\* C5: a JUMP that passed the requirement check continues at its target t when
\* t < code_size and bitmap[t] is set, and only then; otherwise the run ends with
\* bad_jump_destination and a returned gas_left of 0.
C5_JumpTarget ==
    (last.op = OP_JUMP /\ last.invoked) =>
        LET t == last.top
            valid == t < Len(code) /\ jumpdest_map[t + 1]
        IN  /\ valid => phase = "loop" /\ pc = t /\ status = EVMC_SUCCESS
            /\ ~valid =>
                   /\ Terminal
                   /\ status = EVMC_BAD_JUMP_DESTINATION
                   /\ phase = "done" =>
                          /\ result.status_code = EVMC_BAD_JUMP_DESTINATION
                          /\ result.gas_left = 0

\* A jump to code_size, where the padded code holds a STOP, is refused.
C5_Witness ==
    /\ last.op = OP_JUMP
    /\ last.invoked
    /\ last.top = Len(code)
    /\ phase = "done"
    /\ gas_left > 0
    /\ result.status_code = EVMC_BAD_JUMP_DESTINATION
    /\ result.gas_left = 0

\* C6: under a loop that is never preempted, every invocation reaches its exit
\* and returns a result.
C6_Terminates == <>(phase = "done")

\* A run that jumped back to the JUMPDEST at offset 0 and was stopped there by
\* the gas meter.
C6_Witness ==
    /\ phase = "done"
    /\ msg_gas > 0
    /\ last.op = OP_JUMPDEST
    /\ last.pc = 0
    /\ ~last.invoked
    /\ result.status_code = EVMC_OUT_OF_GAS

\* What a step may not touch once the status is a failure: nothing is fetched
\* or executed and the host is not called.
FrozenStep ==
    /\ status' = status
    /\ last' = last
    /\ pc' = pc
    /\ stack' = stack
    /\ memory' = memory
    /\ gas_left' = gas_left
    /\ host_calls' = host_calls

\* C7: once the status is not success the loop has exited, no later step
\* dispatches an instruction or calls the host, and the result carries exactly
\* that status.
C7_FailureExits ==
    /\ [](status # EVMC_SUCCESS => Terminal)
    /\ [][status # EVMC_SUCCESS => FrozenStep]_vars
    /\ [](phase = "done" => result.status_code = status)

\* A routine (not the requirement check) failed before the end of the code.
C7_Witness ==
    /\ phase = "done"
    /\ last.invoked
    /\ last.op = OP_EXP
    /\ last.pc + 1 < Len(code)
    /\ result.status_code = EVMC_OUT_OF_GAS

Terminators == {OP_STOP, OP_RETURN, OP_REVERT, OP_INVALID, OP_SELFDESTRUCT}

\* The result's output is the captured range of memory.
OutputIsCaptured ==
    /\ Len(result.output) = last.second
    /\ \A k \in 1..last.second : result.output[k] = memory[last.top + k]

\* C8 as stated: every invoked terminator ends the loop; STOP and RETURN give
\* success, REVERT gives revert with gas_left preserved and the output
\* returned, INVALID gives a failure with gas_left 0.
C8_AsStated ==
    (last.invoked /\ last.op \in Terminators) =>
        /\ Terminal
        /\ last.op \in {OP_STOP, OP_RETURN} => status = EVMC_SUCCESS
        /\ last.op = OP_REVERT =>
               /\ status = EVMC_REVERT
               /\ phase = "done" => result.gas_left = gas_left /\ OutputIsCaptured
        /\ last.op = OP_INVALID =>
               /\ status \notin {EVMC_SUCCESS, EVMC_REVERT}
               /\ phase = "done" => result.gas_left = 0

\* The output range of the RETURN or REVERT dispatched last lies in memory.
OutputPaidFor == last.second = 0 \/ last.top + last.second <= Len(memory)

\* C8, amended: every invoked terminator ends the loop with its own status.
\* STOP gives success.  RETURN gives success and REVERT gives revert, with
\* gas_left preserved and the output returned, when the memory expansion for
\* the output is paid for; when the gas does not cover it they give
\* out_of_gas, gas_left 0 and no output.  INVALID gives a failure with
\* gas_left 0.
C8_Terminators ==
    (last.invoked /\ last.op \in Terminators) =>
        /\ Terminal
        /\ last.op = OP_STOP => status = EVMC_SUCCESS
        /\ last.op \in {OP_RETURN, OP_REVERT} =>
               \/ /\ status = IF last.op = OP_RETURN THEN EVMC_SUCCESS ELSE EVMC_REVERT
                  /\ gas_left >= 0
                  /\ OutputPaidFor
                  /\ phase = "done" => result.gas_left = gas_left /\ OutputIsCaptured
               \/ /\ status = EVMC_OUT_OF_GAS
                  /\ gas_left < 0
                  /\ ~OutputPaidFor
                  /\ phase = "done" => result.gas_left = 0 /\ result.output = <<>>
        /\ last.op = OP_INVALID =>
               /\ status = EVMC_INVALID_INSTRUCTION
               /\ phase = "done" => result.gas_left = 0
        /\ last.op = OP_SELFDESTRUCT =>
               status = IF msg_static THEN EVMC_STATIC_MODE_VIOLATION ELSE EVMC_SUCCESS

\* A RETURN that passed the requirement check and ran out of gas expanding
\* memory.
C8_Witness ==
    /\ phase = "done"
    /\ last.invoked
    /\ last.op = OP_RETURN
    /\ result.status_code = EVMC_OUT_OF_GAS
    /\ result.gas_left = 0

\* C9: from the start of the loop on, no step increases gas_left, and gas_left
\* never exceeds the message's gas.
C9_GasMonotone ==
    /\ [][phase # "entry" => gas_left' <= gas_left]_vars
    /\ [](phase # "entry" => gas_left <= msg_gas)

\* A successful run that paid base costs and a memory expansion.
C9_Witness ==
    /\ phase = "done"
    /\ status = EVMC_SUCCESS
    /\ Len(memory) > 32
    /\ gas_left < msg_gas
    /\ gas_left > 0

C11_WordAligned ==
    /\ Len(memory) % 32 = 0
    /\ Len(p_state.memory) % 32 = 0
    /\ (last.invoked /\ last.op = OP_MSIZE) => Item(stack, 0) = Len(memory)

\* C12: after an MSTORE that succeeded the memory holds the 32 bytes stored,
\* in either interpreter, and after a RETURN or REVERT of the baseline that
\* succeeded with a nonzero size it holds the output range.
C12_AccessCovered ==
    /\ (last.invoked /\ last.op = OP_MSTORE /\ status = EVMC_SUCCESS)
           => Len(memory) >= last.top + 32
    /\ (last.invoked /\ last.op \in {OP_RETURN, OP_REVERT} /\ last.second # 0
            /\ status \in {EVMC_SUCCESS, EVMC_REVERT})
           => Len(memory) >= last.top + last.second
    /\ (p_last.ran /\ p_last.op = OP_MSTORE /\ p_state.status = EVMC_SUCCESS)
           => Len(p_state.memory) >= p_last.top + 32

\* cost(w) = 3 w + floor(w^2 / 512) for the w = ceil(size / 32) words of a
\* memory of the given size.
C13_Cost(size) ==
    LET w == (size + 31) \div 32
    IN  3 * w + (w * w) \div 512

\* The gas one passed check took is the cost of the memory after it less the
\* cost of the memory before it (nothing when the memory did not grow).
C13_Step(before, after) ==
    (before.run /\ after.run) =>
        /\ before.gas_left - after.gas_left =
               C13_Cost(Len(after.memory)) - C13_Cost(Len(before.memory))
        /\ Len(after.memory) = Len(before.memory) => after.gas_left = before.gas_left

C14_ZeroLength ==
    [][(mem_in'.tried /\ mem_in'.size = U256(0, 0))
           => (mem_proto' = mem_proto /\ mem_base' = mem_base)]_vars

\* A zero-length access at an offset above 2^32 - 1 was checked on grown
\* memories with gas left, and both runs go on.
C14_Witness ==
    /\ mem_in.tried
    /\ mem_in.size = U256(0, 0)
    /\ mem_in.offset.hi >= 2
    /\ mem_proto.run
    /\ mem_base.run
    /\ Len(mem_proto.memory) > 0
    /\ Len(mem_base.memory) > 0
    /\ mem_proto.gas_left > 0

\* The program counter after the instruction recorded in l, dispatched at
\* l.pc on a stack with l.top over l.second, ran without ending the loop.
C15_NextPc(l) ==
    IF l.op \in OP_PUSH1..OP_PUSH32 THEN l.pc + 1 + (l.op - OP_PUSH1 + 1)
    ELSE IF l.op = OP_JUMP THEN l.top
    ELSE IF l.op = OP_JUMPI /\ l.second # 0 THEN l.top
    ELSE l.pc + 1

\* C15: an instruction that ran and left the loop going moves the program
\* counter past a PUSH's data, to the popped target of a JUMP or of a taken
\* JUMPI, and by one otherwise; PC pushes the counter it was dispatched at.
C15_ProgramCounter ==
    [][(phase = "loop" /\ phase' = "loop" /\ last' # last) =>
          /\ last'.invoked
          /\ last'.pc = pc
          /\ pc' = C15_NextPc(last')
          /\ last'.op = OP_PC => Item(stack', 0) = pc]_vars

\* A JUMPI that was taken to a target other than the next instruction.
C15_Witness ==
    /\ phase = "loop"
    /\ last.invoked
    /\ last.op = OP_JUMPI
    /\ last.second # 0
    /\ pc = last.top
    /\ pc # last.pc + 1

\* C16: a gas check fails with out_of_gas only when the cost exceeds the gas
\* that was left: the baseline's check of an opcode's base cost, and the
\* prototype's check of a block's cost.
C16_ExactGasPasses ==
    /\ (last.op # -1 /\ ~last.invoked /\ status = EVMC_OUT_OF_GAS)
           => last.gas < InstructionTable(last.op).gas_cost
    /\ (p_last.op # -1 /\ ~p_last.ran /\ p_state.status = EVMC_OUT_OF_GAS)
           => p_last.gas < p_last.block_cost

C18_PaddedBuffer ==
    phase # "entry" =>
        LET i == AnalyzeScan(code).i
        IN  /\ Len(padded_code) = Max(Len(code), i) + 1
            /\ \A k \in 1..Len(code) : padded_code[k] = code[k]
            /\ \A k \in (Len(code) + 1)..Len(padded_code) : padded_code[k] = OP_STOP

\* The n data bytes of the PUSH at offset at of the code c, zero where the
\* code has ended.
C19_Data(c, at, n) ==
    [k \in 1..n |-> IF at + 1 + k <= Len(c) THEN c[at + 1 + k] ELSE 0]

\* C19: a PUSH whose data runs past the end of the code pushes the big-endian
\* value of the code bytes that are there followed by zero bytes.
C19_TruncatedPush ==
    (/\ last.invoked
     /\ last.op \in OP_PUSH1..OP_PUSH32
     /\ last.pc + 1 + PushLen(last.op) > Len(code))
        => Item(stack, 0) = BigEndian(C19_Data(code, last.pc, PushLen(last.op)))

\* C20: after a RETURN that ended the loop with success, the output range
\* recorded is the (offset, size) it popped, a nonzero range lies inside the
\* memory, and the result's output is that range of the memory (empty for
\* size 0), in the baseline and in the prototype.
C20_ReturnOutput ==
    /\ (phase \in {"exit", "done"} /\ last.invoked /\ last.op = OP_RETURN
            /\ status = EVMC_SUCCESS)
           => /\ output_size = last.second
              /\ output_size # 0 =>
                     /\ output_offset = last.top
                     /\ output_offset + output_size <= Len(memory)
              /\ phase = "done" =>
                     result.output =
                         SubSeq(memory, output_offset + 1, output_offset + output_size)
    /\ (p_phase \in {"exit", "done"} /\ p_last.ran /\ p_last.op = OP_RETURN
            /\ p_state.status = EVMC_SUCCESS)
           => /\ p_state.output_size = p_last.second
              /\ p_state.output_size # 0 =>
                     /\ p_state.output_offset = p_last.top
                     /\ p_state.output_offset + p_state.output_size
                            <= Len(p_state.memory)
              /\ p_phase = "done" =>
                     p_result.output =
                         SubSeq(p_state.memory, p_state.output_offset + 1,
                                p_state.output_offset + p_state.output_size)

\* The offsets a jump-destination bitmap marks.
C21_Marked(map) == {k \in 0..(Len(map) - 1) : map[k + 1]}

\* C21: analyze run on the padded code that analyze produced marks the same
\* offsets as the bitmap of the original code, none of them at or above
\* code_size.
C21_RoundTrip ==
    phase # "entry" =>
        /\ C21_Marked(AnalyzeScan(padded_code).map) = C21_Marked(jumpdest_map)
        /\ \A k \in C21_Marked(AnalyzeScan(padded_code).map) : k < Len(code)

\* A code with a marked JUMPDEST whose padding holds a leftover JUMPDEST byte.
C21_Witness ==
    /\ phase # "entry"
    /\ C21_Marked(jumpdest_map) # {}
    /\ \E k \in (Len(code) + 1)..Len(padded_code) : padded_code[k] = OP_JUMPDEST

\* C25: after GAS has run the stack is one item higher and its top is
\* gas_left as the deduction of the base cost left it, in the baseline and
\* in the prototype.
C25_GasPushed ==
    /\ (last.invoked /\ last.op = OP_GAS)
           => /\ Len(stack) = last.height + 1
              /\ Item(stack, 0) = gas_left
              /\ gas_left = last.gas - InstructionTable(OP_GAS).gas_cost
    /\ (p_last.ran /\ p_last.op = OP_GAS)
           => /\ Len(p_state.stack) = p_last.height + 1
              /\ Item(p_state.stack, 0) = p_state.gas_left

\* PUSH1 1, PUSH1 2, ADD, PUSH1 0, MSTORE, PUSH1 32, PUSH1 0, RETURN
C26_Code == <<96, 1, 96, 2, 1, 96, 0, 82, 96, 32, 96, 0, 243>>

\* Success, the 32-byte big-endian representation of 3, and 100000 less
\* seven base costs of 3 and 3 for one word of memory.
C26_Result ==
    [status_code |-> EVMC_SUCCESS,
     gas_left |-> 99976,
     output |-> [k \in 1..32 |-> IF k = 32 THEN 3 ELSE 0]]

\* C26: run with gas 100000, the program returns success, the word 3 and
\* gas_left 99976, from the baseline and from the prototype.
C26_Scenario ==
    (code = C26_Code /\ msg_gas = 100000) =>
        /\ phase = "done" => result = C26_Result
        /\ p_phase \notin {"idle", "loop", "exit"} =>
               (p_phase = "done" /\ p_result = C26_Result)

\* Both interpreters have returned from the program.
C26_Witness ==
    /\ code = C26_Code
    /\ msg_gas = 100000
    /\ phase = "done"
    /\ p_phase = "done"
    /\ result.gas_left = 99976
    /\ p_result.output[32] = 3

\* C27: the program JUMPDEST, PUSH1 0, JUMP, started with any positive gas,
\* never ends with success: it runs until the charge of an opcode makes the
\* gas counter negative and then ends with out_of_gas and gas_left 0.
C27_EndlessLoop ==
    /\ [](code = LoopCode /\ phase = "done"
              => result.status_code = EVMC_OUT_OF_GAS /\ result.gas_left = 0)
    /\ [](code = LoopCode /\ phase = "loop" /\ gas_left < 0
              => status = EVMC_OUT_OF_GAS)
    /\ (code = LoopCode /\ msg_gas > 0) ~> (phase = "done")

\* The loop went round at least twice before the gas ran out.
C27_Witness ==
    /\ code = LoopCode
    /\ msg_gas >= 24
    /\ phase = "done"
    /\ result.status_code = EVMC_OUT_OF_GAS

\* C28: on every program made of STOP, ADD, POP, MSTORE, PUSH1..PUSH32 and
\* RETURN, and for every initial gas, the prototype ends with the status,
\* the gas_left and the output the baseline ends with.
C28_Ops == {OP_STOP, OP_ADD, OP_POP, OP_MSTORE, OP_RETURN} \cup (OP_PUSH1..OP_PUSH32)

C28_Program ==
    \A k \in 1..Len(ProtoAnalysis[code].instrs) :
        ProtoAnalysis[code].instrs[k].op \in C28_Ops

C28_SameSemantics ==
    (C28_Program /\ phase = "done" /\ p_phase \notin {"idle", "loop", "exit"})
        => (p_phase = "done" /\ p_result = result)

\* C22: two invocations with the same code and message return the same
\* status, the same gas_left and the same output bytes, whatever the
\* unwritten bytes of either padded buffer hold.
C22_Deterministic ==
    (previous.ran /\ phase = "done") => result = previous.result

\* Both invocations have returned, and their padded buffers differ.
C22_Witness ==
    /\ previous.ran
    /\ phase = "done"
    /\ padded_code # previous.padded_code
    /\ result.status_code = EVMC_SUCCESS

\* C23 as stated: a traced invocation notifies its tracer twice, once before
\* the loop and once after termination, and never in between.
C23_TwoNotifications ==
    (tracing /\ phase = "done")
        => trace = <<Notification("execution_start", -1),
                     Notification("execution_end", -1)>>

\* The states of the loop's iterations whose offset lies in the code.
C23_InCode(h) == h.pc < Len(code)

C23_Iterations == SelectSeq(SubSeq(history, 1, Len(history) - 1), C23_InCode)

\* C23, amended: a traced invocation notifies its tracer once before the
\* loop, once at the start of every iteration of the loop whose offset is
\* below code_size (before the requirement check), and once after
\* termination; an untraced invocation notifies nobody.
C23_Notifications ==
    /\ ~tracing => trace = <<>>
    /\ (tracing /\ phase = "done") =>
           /\ Len(trace) = Len(C23_Iterations) + 2
           /\ trace[1] = Notification("execution_start", -1)
           /\ trace[Len(trace)] = Notification("execution_end", -1)
           /\ \A k \in 1..Len(C23_Iterations) :
                  trace[k + 1] = Notification("instruction_start", C23_Iterations[k].pc)
    /\ (tracing /\ phase \in {"loop", "exit"}) =>
           /\ trace[1] = Notification("execution_start", -1)
           /\ \A k \in 2..Len(trace) : trace[k].event = "instruction_start"

\* A traced invocation has returned after an iteration in the code and the
\* iteration at the STOP of the padding.
C23_Witness ==
    /\ tracing
    /\ phase = "done"
    /\ Len(trace) >= 3
    /\ Len(history) > Len(C23_Iterations) + 1

C29_CallsOf(op) ==
    CASE op = OP_SLOAD -> {"access_storage", "get_storage"}
      [] op = OP_SSTORE -> {"access_storage", "set_storage"}
      [] op = OP_CALL -> {"access_account", "get_balance", "call"}
      [] op = OP_SELFDESTRUCT -> {"selfdestruct"}
      [] OTHER -> {}

\* The calls to the host that a step has added.
C29_Added == SubSeq(host_calls', Len(host_calls) + 1, Len(host_calls'))

\* C29: the host sees the calls of the host-touching opcodes in the order
\* the loop runs them.  A step never alters the calls already made; the
\* calls it adds are those of the one opcode the loop is at, which has
\* passed the requirement check and is dispatched in this step, so that
\* they are made before the next opcode is fetched; an opcode that failed
\* the check makes none, and none is made once the loop has been left.
C29_HostOrder ==
    [][/\ Len(host_calls') >= Len(host_calls)
       /\ SubSeq(host_calls', 1, Len(host_calls)) = host_calls
       /\ Len(host_calls') > Len(host_calls) =>
              /\ phase = "loop"
              /\ Req.status = EVMC_SUCCESS
              /\ last'.invoked
              /\ last'.pc = pc
              /\ last'.op = Fetch
              /\ \A k \in 1..Len(C29_Added) :
                     C29_Added[k].call \in C29_CallsOf(Fetch)
       /\ (phase = "loop" /\ Req.status = EVMC_SUCCESS /\ phase' = "loop"
               /\ Fetch \in {OP_SLOAD, OP_SSTORE, OP_CALL}) =>
              Len(host_calls') > Len(host_calls)]_vars

\* A run that stored, loaded and destroyed itself has made its five calls
\* in program order.
C29_Witness ==
    /\ phase = "done"
    /\ Len(host_calls) = 5
    /\ host_calls[1].call = "access_storage"
    /\ host_calls[2].call = "set_storage"
    /\ host_calls[4].call = "get_storage"
    /\ host_calls[5].call = "selfdestruct"

\* The CALL the loop is at is to be refused: the depth is at the limit, or
\* it carries a value in a static call or above the balance.
C30_Refused ==
    \/ msg_depth >= CallDepthLimit
    \/ (Item(stack, 2) # 0 /\ msg_static)
    \/ (Item(stack, 2) # 0 /\ host.balance < Item(stack, 2))

C31_TwoStops ==
    phase # "entry" =>
        LET i == AnalyzeScan(code).i
        IN  /\ Len(code) < Len(padded_code)
            /\ i < Len(padded_code)
            /\ i = Len(padded_code) - 1
            /\ padded_code[Len(code) + 1] = OP_STOP
            /\ padded_code[Len(padded_code)] = OP_STOP

\* The analysis of a code that ends in a PUSH missing two or more bytes:
\* the two STOP bytes are apart, with an unwritten byte between them.
C31_Witness ==
    /\ phase # "entry"
    /\ Len(padded_code) > Len(code) + 2
    /\ padded_code[Len(code) + 1] = OP_STOP
    /\ padded_code[Len(padded_code)] = OP_STOP
    /\ \E k \in (Len(code) + 2)..(Len(padded_code) - 1) : padded_code[k] # OP_STOP

\* The scan's end index, from the buffer of i + 1 bytes.
C32_Index == Len(padded_code) - 1

\* The code ends in a PUSH at offset j whose data runs up to or past the end
\* of the code, and the instruction after it would start at k.
C32_TruncatedPush(j, k) ==
    /\ j \in Boundaries(code)
    /\ j < Len(code)
    /\ code[j + 1] \in OP_PUSH1..OP_PUSH32
    /\ j + (code[j + 1] - OP_PUSH1 + 1) >= Len(code)
    /\ k = j + 1 + (code[j + 1] - OP_PUSH1 + 1)

\* C32: after the scan, code_size <= i <= code_size + 32, and i is above
\* code_size only when the last instruction of the code is a PUSH whose data
\* the end of the code cuts short; i is then the offset after that data.
C32_ScanIndex ==
    phase = "analyzed" =>
        /\ C32_Index = AnalyzeScan(code).i
        /\ Len(code) <= C32_Index
        /\ C32_Index <= Len(code) + 32
        /\ C32_Index > Len(code) =>
               \E j \in 0..(Len(code) - 1) : C32_TruncatedPush(j, C32_Index)

\* A code ending in PUSH32 without data: i is 32 above code_size.
C32_Witness ==
    /\ phase = "analyzed"
    /\ Len(code) >= 2
    /\ C32_Index = Len(code) + 32

\* Offset dst of the code holds a JUMPDEST that is an instruction.
C33_ValidTarget(dst) ==
    /\ dst < Len(code)
    /\ code[dst + 1] = OP_JUMPDEST
    /\ ~InPushData(code, Boundaries(code), dst)

\* C33: a JUMPI that has passed the requirement check pops its two operands.
\* With a zero condition it continues at pc + 1 whatever its target, and the
\* status stays as it was; with a non-zero condition it does what JUMP does
\* with the target: it continues there when the target is a JUMPDEST
\* instruction of the code and ends with bad_jump_destination otherwise.
C33_Jumpi ==
    [][(phase = "loop" /\ Fetch = OP_JUMPI /\ Req.status = EVMC_SUCCESS)
           => /\ Len(stack') = Len(stack) - 2
              /\ Item(stack, 1) = 0 =>
                     /\ phase' = "loop"
                     /\ pc' = pc + 1
                     /\ status' = status
              /\ (Item(stack, 1) # 0 /\ C33_ValidTarget(Item(stack, 0))) =>
                     /\ phase' = "loop"
                     /\ pc' = Item(stack, 0)
                     /\ status' = status
              /\ (Item(stack, 1) # 0 /\ ~C33_ValidTarget(Item(stack, 0))) =>
                     /\ phase' = "exit"
                     /\ status' = EVMC_BAD_JUMP_DESTINATION]_vars

\* A JUMPI with a zero condition and a target past the code has gone on to
\* the next instruction.
C33_Witness ==
    /\ phase = "loop"
    /\ last.invoked
    /\ last.op = OP_JUMPI
    /\ last.second = 0
    /\ last.top >= Len(code)
    /\ pc = last.pc + 1
    /\ status = EVMC_SUCCESS

\* C34: while the dispatch loop runs and when it has exited, the program
\* counter is an index of the padded code and an instruction boundary of the
\* code (the scan's end index included): it never points into the data of a
\* PUSH, and the immediate bytes of a PUSH_n at the program counter all lie
\* inside the padded code.
C34_PcOnBoundary ==
    phase \in {"loop", "exit"} =>
        /\ pc \in 0..(Len(padded_code) - 1)
        /\ pc \in Boundaries(code) \cup {AnalyzeScan(code).i}
        /\ ~InPushData(code, Boundaries(code), pc)
        /\ Fetch \in OP_PUSH1..OP_PUSH32 =>
               pc + (Fetch - OP_PUSH1 + 1) <= Len(padded_code) - 1

\* The loop fetches the STOP at the scan's end index, behind a PUSH2 whose
\* data ran over the end of the code.
C34_Witness ==
    /\ phase = "loop"
    /\ last.invoked
    /\ last.op = OP_PUSH2
    /\ last.pc + 1 = Len(code)
    /\ pc = Len(code) + 2
    /\ pc = Len(padded_code) - 1

\* The offsets at which a run fetched an instruction, in order: the program
\* counters of the states recorded at the top of the loop.
C35_Pcs(h) == [k \in 1..(Len(h) - 1) |-> h[k].pc]

\* What the loop saw at the top of every iteration, except the stack and the
\* memory, which may hold bytes of the padding the analysis left unwritten.
C35_Seen(h) ==
    [k \in 1..(Len(h) - 1) |->
        <<h[k].pc, h[k].gas_left, h[k].status, Len(h[k].stack), Len(h[k].memory)>>]

\* C35: on the same code and message the variant whose wrappers return the
\* next code pointer fetches at the same sequence of program counters as the
\* variant whose wrappers return a terminate flag, with the same gas and
\* status at every fetch, and returns the same status, gas_left and output.
C35_SameRun ==
    (previous.ran /\ variant = "next" /\ phase = "done")
        => /\ C35_Pcs(history) = C35_Pcs(previous.history)
           /\ C35_Seen(history) = C35_Seen(previous.history)
           /\ result.status_code = previous.result.status_code
           /\ result.gas_left = previous.result.gas_left
           /\ result.output = previous.result.output

\* Both variants have returned from a run that took a jump and whose second
\* variant left the loop with a null code pointer.
C35_Witness ==
    /\ previous.ran
    /\ variant = "next"
    /\ phase = "done"
    /\ pc = nullptr
    /\ Len(history) >= 4
    /\ \E k \in 1..(Len(history) - 2) :
          /\ padded_code[history[k].pc + 1] \in {OP_JUMP, OP_JUMPI}
          /\ history[k + 1].pc # history[k].pc + 1

\* The tracer has been told of the start of the execution and not of its end.
C36_Open(t) ==
    /\ Len(t) >= 1
    /\ t[1] = Notification("execution_start", -1)
    /\ \A k \in 1..Len(t) : t[k].event # "execution_end"

\* The instruction-start notifications among the first n of t.
C36_Starts(t, n) == {k \in 1..n : t[k].event = "instruction_start"}

\* C36: every iteration of a traced loop, whether its instruction then passes
\* the requirement check or fails it, adds exactly one instruction-start
\* notification carrying the offset fetched at, as the last notification so
\* far, unless the offset is code_size or more, and then it adds none; it does
\* so after the execution-start and before the execution-end notification.
\* No other step adds an instruction-start notification, and an untraced run
\* never holds one.
C36_InstructionStart ==
    [][/\ (tracing /\ phase = "loop") =>
              /\ C36_Open(trace)
              /\ trace' = IF pc < Len(code)
                          THEN Append(trace, Notification("instruction_start", pc))
                          ELSE trace
       /\ phase # "loop" =>
              C36_Starts(trace', Len(trace')) \subseteq C36_Starts(trace, Len(trace))
       /\ ~tracing => C36_Starts(trace, Len(trace)) = {}]_vars

\* A traced loop has left for the exit because the instruction it fetched
\* failed the requirement check, and the tracer's last notification is the
\* start of that instruction.
C36_Witness ==
    /\ tracing
    /\ phase = "exit"
    /\ ~last.invoked
    /\ status \in {EVMC_UNDEFINED_INSTRUCTION, EVMC_OUT_OF_GAS, EVMC_STACK_UNDERFLOW}
    /\ Len(trace) >= 3
    /\ trace[Len(trace)] = Notification("instruction_start", pc)

\* The check an access has to pass was refused for its offset or its size.
C37_OverLimit(offset, size) ==
    size # U256(0, 0) /\ (ExceedsLimit(offset) \/ ExceedsLimit(size))

\* C37: a check_memory of a nonzero-length access whose offset or size is
\* above 2^32 - 1 stops the prototype with out_of_gas and leaves the memory
\* as it was; an MSTORE whose index is above the limit does the same; and an
\* MSTORE that fails, on the limit or on the gas of the expansion, leaves the
\* stack with both operands and the memory with its length and contents.
C37_FailedAccess ==
    [][/\ (mem_proto.run /\ mem_proto.stack = <<>> /\ mem_in'.tried
           /\ mem_in' # mem_in
           /\ C37_OverLimit(mem_in'.offset, mem_in'.size)) =>
              /\ ~mem_proto'.run
              /\ mem_proto'.status = EVMC_OUT_OF_GAS
              /\ mem_proto'.memory = mem_proto.memory
       /\ (mem_proto.run /\ Len(mem_proto.stack) = 2) =>
              /\ ExceedsLimit(mem_proto.stack[2]) =>
                     /\ ~mem_proto'.run
                     /\ mem_proto'.status = EVMC_OUT_OF_GAS
              /\ (~mem_proto'.run /\ mem_proto'.status = EVMC_OUT_OF_GAS) =>
                     /\ mem_proto'.stack = mem_proto.stack
                     /\ mem_proto'.memory = mem_proto.memory]_vars

\* An MSTORE has failed on the limit, with both operands on the stack and a
\* memory that holds a word stored before, a non-zero byte among its bytes.
C37_Witness ==
    /\ ~mem_proto.run
    /\ mem_proto.status = EVMC_OUT_OF_GAS
    /\ Len(mem_proto.stack) = 2
    /\ ExceedsLimit(mem_proto.stack[2])
    /\ mem_in.tried
    /\ mem_in.offset = mem_proto.stack[2]
    /\ Len(mem_proto.memory) >= 32
    /\ \E k \in 1..Len(mem_proto.memory) : mem_proto.memory[k] # 0

====
